---- MODULE Spec2Model ----
(***************************************************************************)
(* Model of beets_flask.invoker.enqueue: the dispatch of folder jobs to    *)
(* the two rq lanes (preview_queue, import_queue), the workers that run    *)
(* the job bodies, the write-back of session state to the store, the       *)
(* status updates sent over the websocket, and the attribute analysis.     *)
(***************************************************************************)
EXTENDS Integers, Sequences, FiniteSets, TLC

\* ------------------------------------------------------------------ bounds
MaxJobs == 2
MaxKwargs == 1
NumPreviewWorkers == 2
NumImportWorkers == 1
MaxItems == 2
MaxBeats == 3
MaxAtoms == 3

\* ------------------------------------------------------------------ values
Hashes == {"h1", "h2"}
Path == "p"

\* the extra_meta a caller passes: "None" (the default) or a frontend reference
ExtraMetas == {"None", "ref"}

EnqueueKind ==
  {"PREVIEW", "PREVIEW_ADD_CANDIDATES", "IMPORT_CANDIDATE", "IMPORT_AUTO",
   "IMPORT_UNDO", "IMPORT_BOOTLEG", "_AUTO_IMPORT", "_AUTO_PREVIEW",
   "ANALYZE_ATTRIBUTES"}

\* the six kinds the match statement of enqueue() handles
SupportedKinds ==
  {"PREVIEW", "PREVIEW_ADD_CANDIDATES", "IMPORT_CANDIDATE", "IMPORT_AUTO",
   "IMPORT_BOOTLEG", "IMPORT_UNDO"}

\* the kinds a caller is modelled to pass: the supported ones and one more
DispatchKinds == SupportedKinds \cup {"ANALYZE_ATTRIBUTES"}

\* the keys each enqueue_* function pops from kwargs (bootleg: the
\* parameters of run_import_bootleg besides hash and path, i.e. none)
Schema(kind) ==
  CASE kind = "PREVIEW" -> {"group_albums", "autotag"}
    [] kind = "PREVIEW_ADD_CANDIDATES" -> {"search"}
    [] kind = "IMPORT_CANDIDATE" -> {"candidate_ids", "duplicate_actions"}
    [] kind = "IMPORT_AUTO" ->
         {"group_albums", "autotag", "import_threshold", "duplicate_actions"}
    [] kind = "IMPORT_UNDO" -> {"delete_files"}
    [] OTHER -> {}

\* the kwargs a caller is modelled to pass with a kind: up to MaxKwargs keys
\* of the kind's schema or "bogus"
KwargSets(kind) ==
  {s \in SUBSET (Schema(kind) \cup {"bogus"}) : Cardinality(s) <= MaxKwargs}

\* ------------------------------------------------------------------ state
VARIABLES
  jobs,           \* sequence of rq jobs, a job's id is its index
  preview_queue,  \* ids of the jobs queued in the preview lane, head first
  import_queue,   \* ids of the jobs queued in the import lane, head first
  store,          \* the persisted SessionStateInDb records
  last,           \* the call of enqueue() that is returning, and its outcome
  websocket,      \* whether a client listens, and the updates it has received
  analysis,       \* the run of run_analyze_attributes, and the library
  config          \* the beets config file, and the last call of ConfigService

vars ==
  <<jobs, preview_queue, import_queue, store, last, websocket, analysis,
    config>>

\* no live session state
NoState ==
  [id |-> 0, folder_hash |-> "", folder_path |-> "", folder_revision |-> 0,
   tasks |-> {}]

\* SessionState(f_on_disk): a fresh live state of the folder as it is on disk
SessionState(f_on_disk_hash, path, id) ==
  [id |-> id, folder_hash |-> f_on_disk_hash, folder_path |-> path,
   folder_revision |-> 0, tasks |-> {}]

\* a job as queue.enqueue creates it, before a worker has touched it: the
\* function and its arguments (hash, path; extra: a keyword the function
\* does not take), the lane, the dependency, the hook; no meta yet
Job(fn, lane, hash, path, depends_on, on_success, extra) ==
  [fn |-> fn, lane |-> lane, hash |-> hash, path |-> path,
   depends_on |-> depends_on, on_success |-> on_success, at_front |-> FALSE,
   meta |-> "", folder_hash |-> "", folder_path |-> "", extra_meta |-> "",
   extra |-> extra, args |-> <<>>,
   status |-> "new", pc |-> "idle", live |-> NoState, max_rev |-> -1,
   outcome |-> "None", result |-> "None"]

\* _enqueue without on_success=emit_update_on_job_change
_enqueue_without_on_success(fn, lane, hash, path, depends_on, extra) ==
  Job(fn, lane, hash, path, depends_on, FALSE, extra)

\* _enqueue: queue.enqueue with on_success=emit_update_on_job_change
_enqueue(fn, lane, hash, path, depends_on, extra) ==
  Job(fn, lane, hash, path, depends_on, TRUE, extra)

\* _set_job_meta: the job tagged with the folder, the kind and the extra meta
_set_job_meta(job, hash, path, kind, extra_meta) ==
  [job EXCEPT !.meta = kind, !.folder_hash = hash, !.folder_path = path,
              !.extra_meta = extra_meta]

\* what an enqueue_* function does: the exception it raises (named: the
\* kwarg keys its message names) or the jobs it submits and the one it returns
Raised(exc, named) == [exc |-> exc, named |-> named, new |-> <<>>, job |-> 0]
Submitted(new, job) == [exc |-> "None", named |-> {}, new |-> new, job |-> job]

\* ------------------------------------------------------- state reconciler
Max(S) == CHOOSE x \in S : \A y \in S : y <= x

SeqToSet(q) == {q[k] : k \in DOMAIN q}

\* SessionStateInDb.get_by_hash_and_path: the persisted sessions of the
\* folder identity; of several revisions the latest one(s)
get_by_hash_and_path(hash, path, st) ==
  LET found == {r \in st : r.folder_hash = hash /\ r.folder_path = path}
  IN {r \in found : \A q \in found : q.folder_revision <= r.folder_revision}

\* _get_live_state_by_folder: the possible results, each the exception
\* raised or the live state returned. The lookup uses the supplied hash, a
\* state created for a missing session is built from the folder on disk.
_get_live_state_by_folder(hash, path, st, f_on_disk_hash, create_if_not_exists, id) ==
  LET s_state_indb == get_by_hash_and_path(hash, path, st)
  IN IF s_state_indb = {} /\ create_if_not_exists
       THEN {[exc |-> "None", state |-> SessionState(f_on_disk_hash, path, id)]}
     ELSE IF s_state_indb = {}
       THEN {[exc |-> "InvalidUsageException", state |-> NoState]}
     ELSE {[exc |-> "None", state |-> r] : r \in s_state_indb}

\* ------------------------------------------------------ enqueue entry points
\* n is the number of jobs that exist already: the next job gets id n + 1

enqueue_preview(hash, path, extra_meta, kwargs, n) ==
  IF kwargs \ {"group_albums", "autotag"} # {}
    THEN Raised("InvalidUsageException", {})
    ELSE Submitted(
           <<_set_job_meta(_enqueue("run_preview", "preview", hash, path, 0, FALSE),
                           hash, path, "PREVIEW", extra_meta)>>,
           n + 1)

\* enqueue_preview_add_candidates enqueueing before it looks for the search
enqueue_preview_add_candidates_enqueues_first(hash, path, extra_meta, kwargs, n) ==
  LET job == _set_job_meta(_enqueue("run_preview_add_candidates", "preview",
                                    hash, path, 0, FALSE),
                           hash, path, "PREVIEW_ADD_CANDIDATES", extra_meta)
  IN IF kwargs \ {"search"} # {}
       THEN Raised("InvalidUsageException", {"search"})
     ELSE IF "search" \notin kwargs
       THEN [Raised("InvalidUsageException", {"search"}) EXCEPT !.new = <<job>>]
     ELSE Submitted(<<job>>, n + 1)

enqueue_preview_add_candidates(hash, path, extra_meta, kwargs, n) ==
  IF kwargs \ {"search"} # {}
    THEN Raised("InvalidUsageException", {"search"})
  ELSE IF "search" \notin kwargs
    THEN Raised("InvalidUsageException", {"search"})
  ELSE Submitted(
         <<_set_job_meta(_enqueue("run_preview_add_candidates", "preview", hash,
                                  path, 0, FALSE),
                         hash, path, "PREVIEW_ADD_CANDIDATES", extra_meta)>>,
         n + 1)

\* enqueue_import_auto returning its first job instead of its second
enqueue_import_auto_returns_preview(hash, path, extra_meta, kwargs, n) ==
  IF kwargs \ {"group_albums", "autotag", "import_threshold", "duplicate_actions"} # {}
    THEN Raised("InvalidUsageException",
                {"group_albums", "autotag", "import_threshold", "duplicate_actions"})
    ELSE Submitted(
           <<_set_job_meta(Job("run_preview", "preview", hash, path, 0, FALSE, FALSE),
                           hash, path, "_AUTO_PREVIEW", extra_meta),
             _set_job_meta(_enqueue("run_import_auto", "import", hash, path, n + 1,
                                    FALSE),
                           hash, path, "_AUTO_IMPORT", extra_meta)>>,
           n + 1)

\* enqueue_import_auto without depends_on=job1
enqueue_import_auto_no_depends_on(hash, path, extra_meta, kwargs, n) ==
  IF kwargs \ {"group_albums", "autotag", "import_threshold", "duplicate_actions"} # {}
    THEN Raised("InvalidUsageException",
                {"group_albums", "autotag", "import_threshold", "duplicate_actions"})
    ELSE Submitted(
           <<_set_job_meta(Job("run_preview", "preview", hash, path, 0, FALSE, FALSE),
                           hash, path, "_AUTO_PREVIEW", extra_meta),
             _set_job_meta(_enqueue("run_import_auto", "import", hash, path, 0,
                                    FALSE),
                           hash, path, "_AUTO_IMPORT", extra_meta)>>,
           n + 2)

\* enqueue_import_auto tagging both jobs without the caller's extra meta
enqueue_import_auto_drops_extra_meta(hash, path, extra_meta, kwargs, n) ==
  IF kwargs \ {"group_albums", "autotag", "import_threshold", "duplicate_actions"} # {}
    THEN Raised("InvalidUsageException",
                {"group_albums", "autotag", "import_threshold", "duplicate_actions"})
    ELSE Submitted(
           <<_set_job_meta(Job("run_preview", "preview", hash, path, 0, FALSE, FALSE),
                           hash, path, "_AUTO_PREVIEW", "ExtraJobMeta()"),
             _set_job_meta(_enqueue("run_import_auto", "import", hash, path, n + 1,
                                    FALSE),
                           hash, path, "_AUTO_IMPORT", "ExtraJobMeta()")>>,
           n + 2)

\* job1 comes from preview_queue.enqueue itself, without the on_success hook
enqueue_import_auto(hash, path, extra_meta, kwargs, n) ==
  IF kwargs \ {"group_albums", "autotag", "import_threshold", "duplicate_actions"} # {}
    THEN Raised("InvalidUsageException",
                {"group_albums", "autotag", "import_threshold", "duplicate_actions"})
    ELSE Submitted(
           <<_set_job_meta(Job("run_preview", "preview", hash, path, 0, FALSE, FALSE),
                           hash, path, "_AUTO_PREVIEW", extra_meta),
             _set_job_meta(_enqueue("run_import_auto", "import", hash, path, n + 1,
                                    FALSE),
                           hash, path, "_AUTO_IMPORT", extra_meta)>>,
           n + 2)

\* enqueue_import_candidate without the fallback to the auto-import
enqueue_import_candidate_no_fallback(hash, path, extra_meta, kwargs, n, st, db) ==
  IF kwargs \ {"candidate_ids", "duplicate_actions"} # {}
    THEN Raised("InvalidUsageException", {"candidate_ids", "duplicate_actions"})
  ELSE IF \/ db # "ok"
          \/ \E r \in _get_live_state_by_folder(hash, path, st, hash, FALSE, 0) :
               r.exc # "None"
    THEN Raised("InvalidUsageException", {})
  ELSE Submitted(
         <<_set_job_meta(_enqueue("run_import_candidate", "import", hash, path, 0,
                                  FALSE),
                         hash, path, "IMPORT_CANDIDATE", extra_meta)>>,
         n + 1)

\* The probe never creates a state, so the folder's hash on disk does not
\* matter to it: the supplied hash stands for it. db is how the storage
\* answers the probe: "ok", or the exception it raises; the bare except
\* catches whatever the probe raises.
enqueue_import_candidate(hash, path, extra_meta, kwargs, n, st, db) ==
  IF kwargs \ {"candidate_ids", "duplicate_actions"} # {}
    THEN Raised("InvalidUsageException", {"candidate_ids", "duplicate_actions"})
  ELSE IF \/ db # "ok"
          \/ \E r \in _get_live_state_by_folder(hash, path, st, hash, FALSE, 0) :
               r.exc # "None"
    THEN enqueue_import_auto(hash, path, extra_meta, {}, n)
  ELSE Submitted(
         <<_set_job_meta(_enqueue("run_import_candidate", "import", hash, path, 0,
                                  FALSE),
                         hash, path, "IMPORT_CANDIDATE", extra_meta)>>,
         n + 1)

enqueue_import_bootleg(hash, path, extra_meta, kwargs, n) ==
  Submitted(
    <<_set_job_meta(_enqueue("run_import_bootleg", "import", hash, path, 0,
                             kwargs # {}),
                    hash, path, "IMPORT_BOOTLEG", extra_meta)>>,
    n + 1)

enqueue_import_undo(hash, path, extra_meta, kwargs, n) ==
  IF kwargs \ {"delete_files"} # {}
    THEN Raised("InvalidUsageException", {"delete_files"})
    ELSE Submitted(
           <<_set_job_meta(_enqueue("run_import_undo", "import", hash, path, 0,
                                    FALSE),
                           hash, path, "IMPORT_UNDO", extra_meta)>>,
           n + 1)

\* enqueue_delete_items without at_front=True
enqueue_delete_items_at_back(n) ==
  Submitted(<<_enqueue("delete_items", "import", "", "", 0, FALSE)>>, n + 1)

\* the job takes task ids, no folder, and gets no meta
enqueue_delete_items(n) ==
  Submitted(
    <<[_enqueue("delete_items", "import", "", "", 0, FALSE)
         EXCEPT !.at_front = TRUE]>>,
    n + 1)

\* the job takes item ids, no folder, and gets no meta
enqueue_analyze_attributes(item_ids, analyze_bpm, analyze_key, n) ==
  Submitted(<<[_enqueue("run_analyze_attributes", "import", "", "", 0, FALSE)
                 EXCEPT !.args = <<item_ids, analyze_bpm, analyze_key>>]>>,
            n + 1)

\* extra_meta None becomes ExtraJobMeta()
enqueue(hash, path, kind, extra_meta_arg, kwargs, n, st, db) ==
  LET extra_meta == IF extra_meta_arg = "None" THEN "ExtraJobMeta()"
                    ELSE extra_meta_arg
  IN CASE kind = "PREVIEW" -> enqueue_preview(hash, path, extra_meta, kwargs, n)
       [] kind = "PREVIEW_ADD_CANDIDATES" ->
            enqueue_preview_add_candidates(hash, path, extra_meta, kwargs, n)
       [] kind = "IMPORT_AUTO" ->
            enqueue_import_auto(hash, path, extra_meta, kwargs, n)
       [] kind = "IMPORT_CANDIDATE" ->
            enqueue_import_candidate(hash, path, extra_meta, kwargs, n, st, db)
       [] kind = "IMPORT_BOOTLEG" ->
            enqueue_import_bootleg(hash, path, extra_meta, kwargs, n)
       [] kind = "IMPORT_UNDO" ->
            enqueue_import_undo(hash, path, extra_meta, kwargs, n)
       [] OTHER -> Raised("InvalidUsageException", {})

\* --------------------------------------------------------------- the queue
\* rq's Queue.enqueue: a job whose dependency has not finished is deferred,
\* any other job is queued in its lane
QueueStatus(job, js) ==
  IF job.depends_on # 0 /\ js[job.depends_on].status # "finished"
    THEN "deferred" ELSE "queued"

\* the jobs js with the jobs new submitted, in order
SubmitAll(js, new) ==
  LET one(acc, k) == Append(acc, [new[k] EXCEPT !.status = QueueStatus(new[k], acc)])
  IN IF Len(new) = 0 THEN js
     ELSE IF Len(new) = 1 THEN one(js, 1)
     ELSE one(one(js, 1), 2)

\* the ids in from..to of the jobs of js queued in the lane with the given
\* at_front, in order
QueuedIn(js, lane, from, to, at_front) ==
  LET ids == [k \in 1..(to - from + 1) |-> from + k - 1]
  IN SelectSeq(ids, LAMBDA j : /\ js[j].lane = lane
                               /\ js[j].status = "queued"
                               /\ js[j].at_front = at_front)

\* rq's push of the newly queued jobs from..to: at the head of the lane's
\* queue with at_front, at its tail without
Pushed(queue, js, lane, from, to) ==
  QueuedIn(js, lane, from, to, TRUE) \o queue \o QueuedIn(js, lane, from, to, FALSE)

\* ----------------------------------------------------------- the websocket
\* no client listens: the updates sent reach nobody
NoClient == [listening |-> FALSE, received |-> <<>>]

\* a client listens and has received nothing yet
Listening == [listening |-> TRUE, received |-> <<>>]

\* FolderStatusUpdate of the folder; job is the job whose body the update is
\* about (for PENDING: the job the call returns, 0 if it raises)
FolderStatusUpdate(hash, path, status, job) ==
  [event |-> "folder_status", hash |-> hash, path |-> path, kind |-> "",
   status |-> status, exc |-> "None", job |-> job]

\* JobStatusUpdate(message="Job status update", job_metas=[job.get_meta()],
\* exc=exc)
JobStatusUpdate(job, exc, j) ==
  [event |-> "job_status", hash |-> job.folder_hash, path |-> job.folder_path,
   kind |-> job.meta, status |-> "", exc |-> exc, job |-> j]

\* send_status_update: the update reaches the clients that listen
send_status_update(ws, update) ==
  IF ws.listening THEN [ws EXCEPT !.received = Append(@, update)] ELSE ws

\* the results a job body ends with, as the values the hook gets: a mapping
\* or not, and the keys (or elements) it holds
ResultValue(result) ==
  CASE result = "None" -> [mapping |-> FALSE, keys |-> {}]
    [] result = "results" ->
         [mapping |-> TRUE, keys |-> {"analyzed", "errors", "skipped"}]
    [] result = "{type}" -> [mapping |-> TRUE, keys |-> {"type"}]
    [] result = "{message}" -> [mapping |-> TRUE, keys |-> {"message"}]
    [] result = "{type, message}" ->
         [mapping |-> TRUE, keys |-> {"type", "message"}]
    [] result = "[type, message]" ->
         [mapping |-> FALSE, keys |-> {"type", "message"}]
    [] OTHER ->
         [mapping |-> TRUE, keys |-> {"type", "message", "description", "trace"}]

\* _is_serialized_exception without the isinstance check
_is_serialized_exception_any_container(d) ==
  "type" \in d.keys /\ "message" \in d.keys

_is_serialized_exception(d) ==
  IF ~d.mapping THEN FALSE
  ELSE IF "type" \in d.keys /\ "message" \in d.keys THEN TRUE
  ELSE FALSE

\* emit_update_on_job_change: the job status update of job j with the result
\* as exc when it is a serialized exception
emit_update_on_job_change(ws, job, j, result, value) ==
  send_status_update(
    ws, JobStatusUpdate(job, IF _is_serialized_exception(value) THEN result
                             ELSE "None", j))

\* ------------------------------------------------------------- the analysis
\* the item ids a caller passes, and those of them the library holds
ItemIds == {1, 2, 3}
LibraryItems == {1, 2}

\* None as the result of _analyze_bpm
NoBpm == -1

\* str(item.path) of the item with the id
PathOf(item_id) == <<"track", item_id>>

\* the library as opened: no item analysed, stored or written yet
OpenedLibrary ==
  [x \in LibraryItems |->
     [bpm |-> NoBpm, initial_key |-> "None", store_calls |-> 0,
      write_calls |-> 0]]

\* what the analysis of the file of an item meets: the outcome of aubio
\* (the beats it detects, its own estimate) and of keyfinder-cli
AudioFile(aubio, beats, get_bpm, which, run, returncode, stdout) ==
  [aubio |-> aubio, beats |-> beats, get_bpm |-> get_bpm, which |-> which,
   run |-> run, returncode |-> returncode, stdout |-> stdout]

\* the ways of closing the library that the cleanup tries, in its order:
\* lib._close(), lib.close(), lib.conn.close(), lib._connection.close()
ClosePaths == <<"_close", "close", "conn", "_connection">>

\* a library handle that exposes some of them, none called yet (called: the
\* paths tried, failed: those of them that raised); the handle of the
\* tests exposes conn and _connection
Handle(exposes) ==
  [exposes |-> exposes, called |-> <<>>, failed |-> {},
   connection_reset |-> FALSE, collected |-> FALSE]

\* run_analyze_attributes(item_ids, analyze_bpm, analyze_key) at the start
\* of its loop: i is the position of the next item id, caught the exception
\* the try block of the last item ended with; the files are without a
\* beat, and no keyfinder-cli is installed
Analysis(item_ids, analyze_bpm, analyze_key) ==
  [pc |-> "loop", item_ids |-> item_ids, i |-> 1,
   analyze_bpm |-> analyze_bpm, analyze_key |-> analyze_key,
   lib |-> OpenedLibrary,
   results |-> [analyzed |-> <<>>, errors |-> <<>>, skipped |-> <<>>],
   caught |-> "None", returned |-> "None",
   files |-> [x \in LibraryItems |->
                AudioFile("ok", <<>>, [num |-> 0, den |-> 1], FALSE,
                          "completed", 0, <<>>)],
   managed_library |-> FALSE, close_library |-> FALSE,
   handle |-> Handle({"conn", "_connection"})]

\* no call of run_analyze_attributes has been made
NoAnalysis == [Analysis(<<>>, TRUE, TRUE) EXCEPT !.pc = "idle"]

\* lib.get_item(item_id): whether the library holds the item
get_item(lib, item_id) == item_id \in DOMAIN lib

\* item.bpm = int(round(bpm)) and item.initial_key = key, each only when the
\* analysis returned a value
assign(item, item_result) ==
  [item EXCEPT !.bpm = IF item_result.bpm # NoBpm THEN item_result.bpm ELSE @,
               !.initial_key = IF item_result.initial_key # "None"
                                 THEN item_result.initial_key ELSE @]

\* item.store() alone, item.try_write() left out
store_without_write(item, raised) ==
  [item EXCEPT !.store_calls = @ + 1]

\* item.store() and then item.try_write(): the calls that are made when the
\* try block ends with raised ("store": item.store() raises, so that
\* try_write is not reached; "write": item.try_write() raises)
store_and_write(item, raised) ==
  [item EXCEPT !.store_calls = @ + 1,
               !.write_calls = IF raised = "store" THEN @ ELSE @ + 1]

\* the dictionary the loop reports for an item that was found
ItemResult(a, item_id, bpm, key) ==
  [item_id |-> item_id, path |-> PathOf(item_id),
   bpm |-> IF a.analyze_bpm THEN bpm ELSE NoBpm,
   initial_key |-> IF a.analyze_key THEN key ELSE "None"]

\* the entries of errors: of an item that was not found (no path, <<>>),
\* and of an item whose try block raised
NotFoundError(item_id) ==
  [item_id |-> item_id, path |-> <<>>, error |-> "Item not found in library"]
RaisedError(item_id, raised) ==
  [item_id |-> item_id, path |-> PathOf(item_id), error |-> raised]

\* the loop body without the inner try: an exception ends the run
analyze_item_without_try(a, bpm, key, raised) ==
  LET item_id == a.item_ids[a.i]
      item_result == ItemResult(a, item_id, bpm, key)
  IN IF ~get_item(a.lib, item_id)
       THEN [a EXCEPT !.results.errors = Append(@, NotFoundError(item_id)),
                      !.caught = "None", !.i = @ + 1]
     ELSE IF raised = "analyze"
       THEN [a EXCEPT !.pc = "done", !.returned = raised]
     ELSE IF raised # "None"
       THEN [a EXCEPT !.lib[item_id] =
                        store_and_write(assign(@, item_result), raised),
                      !.pc = "done", !.returned = raised]
     ELSE [a EXCEPT !.lib[item_id] =
                      store_and_write(assign(@, item_result), raised),
                    !.results.analyzed = Append(@, item_result),
                    !.caught = "None", !.i = @ + 1]

\* the loop body appending to analyzed before item.store()
analyze_item_appends_before_store(a, bpm, key, raised) ==
  LET item_id == a.item_ids[a.i]
      item_result == ItemResult(a, item_id, bpm, key)
  IN IF ~get_item(a.lib, item_id)
       THEN [a EXCEPT !.results.errors = Append(@, NotFoundError(item_id)),
                      !.caught = "None", !.i = @ + 1]
     ELSE IF raised = "analyze"
       THEN [a EXCEPT !.results.errors = Append(@, RaisedError(item_id, raised)),
                      !.caught = raised, !.i = @ + 1]
     ELSE IF raised # "None"
       THEN [a EXCEPT !.lib[item_id] =
                        store_and_write(assign(@, item_result), raised),
                      !.results.analyzed = Append(@, item_result),
                      !.results.errors = Append(@, RaisedError(item_id, raised)),
                      !.caught = raised, !.i = @ + 1]
     ELSE [a EXCEPT !.lib[item_id] =
                      store_and_write(assign(@, item_result), raised),
                    !.results.analyzed = Append(@, item_result),
                    !.caught = "None", !.i = @ + 1]

\* one pass of the loop of run_analyze_attributes, for the item id at
\* position i: bpm and key are what int(round(_analyze_bpm(..))) and
\* _analyze_key(..) give, raised the exception the try block ends with
\* ("analyze": raised before the item is touched, "store": raised by
\* item.store(), "write": raised by item.try_write(), "None": none).
analyze_item(a, bpm, key, raised) ==
  LET item_id == a.item_ids[a.i]
      item_result == ItemResult(a, item_id, bpm, key)
  IN IF ~get_item(a.lib, item_id)
       THEN [a EXCEPT !.results.errors = Append(@, NotFoundError(item_id)),
                      !.caught = "None", !.i = @ + 1]
     ELSE IF raised = "analyze"
       THEN [a EXCEPT !.results.errors = Append(@, RaisedError(item_id, raised)),
                      !.caught = raised, !.i = @ + 1]
     ELSE IF raised # "None"
       THEN [a EXCEPT !.lib[item_id] =
                        store_and_write(assign(@, item_result), raised),
                      !.results.errors = Append(@, RaisedError(item_id, raised)),
                      !.caught = raised, !.i = @ + 1]
     ELSE [a EXCEPT !.lib[item_id] =
                      store_and_write(assign(@, item_result), raised),
                    !.results.analyzed = Append(@, item_result),
                    !.caught = "None", !.i = @ + 1]

\* ------------------------------------------------------ tempo estimation
\* a float as the fraction num / den, den > 0, and its comparisons
Fraction(num, den) == [num |-> num, den |-> den]
Leq(a, b) == a.num * b.den <= b.num * a.den
Whole(n) == Fraction(n, 1)

\* None as the result of _analyze_bpm, a float otherwise
NoTempo == Fraction(NoBpm, 1)

\* tempo.get_last_s() gives seconds; the model counts hundredths of a second
TicksPerSecond == 100

RECURSIVE Sum(_)
Sum(q) == IF q = <<>> THEN 0 ELSE Head(q) + Sum(Tail(q))

\* [beats[i + 1] - beats[i] for i in range(len(beats) - 1)]
Intervals(beats) ==
  [i \in 1..(Len(beats) - 1) |-> beats[i + 1] - beats[i]]

\* the fallback without the range check: tempo.get_bpm() as it is
fallback_unchecked(get_bpm) == get_bpm

\* the fallback: tempo.get_bpm() if it is within [40, 250], None otherwise
fallback(get_bpm) ==
  IF Leq(Whole(40), get_bpm) /\ Leq(get_bpm, Whole(250))
    THEN get_bpm ELSE NoTempo

\* _analyze_bpm(file_path): aubio is "ImportError" when the library is not
\* installed, "Exception" when reading the file or detecting beats raises,
\* "ok" otherwise; beats are the timestamps of the detected beats, get_bpm
\* is the detector's own estimate.
_analyze_bpm(aubio, beats, get_bpm) ==
  LET intervals == Intervals(beats)
      \* 60.0 / (sum(intervals) / len(intervals))
      bpm == Fraction(60 * TicksPerSecond * Len(intervals), Sum(intervals))
  IN IF aubio # "ok" THEN NoTempo
     ELSE IF Len(beats) >= 2 /\ Len(intervals) > 0 /\ Sum(intervals) > 0
       THEN IF Leq(Whole(40), bpm) /\ Leq(bpm, Whole(250)) THEN bpm
            ELSE IF Leq(Whole(20), bpm) /\ ~Leq(Whole(40), bpm)
              THEN Fraction(bpm.num * 2, bpm.den)
            ELSE IF ~Leq(bpm, Whole(250)) /\ Leq(bpm, Whole(500))
              THEN Fraction(bpm.num, bpm.den * 2)
            ELSE fallback(get_bpm)
     ELSE fallback(get_bpm)

\* int(round(bpm)): the nearest integer, the even one of two equally near
round(bpm) ==
  LET q == bpm.num \div bpm.den
      r == bpm.num % bpm.den
  IN IF 2 * r < bpm.den THEN q
     ELSE IF 2 * r > bpm.den THEN q + 1
     ELSE IF q % 2 = 0 THEN q ELSE q + 1

\* the bpm the loop works with: None, or item.bpm = int(round(bpm))
ItemBpm(bpm) == IF bpm = NoTempo THEN NoBpm ELSE round(bpm)

\* --------------------------------------------------------- key estimation
\* a string of the tool is the sequence of its characters
\* str.strip(): blanks, tabs and newlines are taken from both ends
RECURSIVE strip(_)
strip(s) ==
  LET whitespace == {" ", "\t", "\n"}
  IN IF s # <<>> /\ Head(s) \in whitespace THEN strip(Tail(s))
     ELSE IF s # <<>> /\ s[Len(s)] \in whitespace
       THEN strip(SubSeq(s, 1, Len(s) - 1))
     ELSE s

\* s.replace(old, new): every occurrence, from the left
RECURSIVE replace(_, _, _)
replace(s, old, new) ==
  IF Len(s) < Len(old) THEN s
  ELSE IF SubSeq(s, 1, Len(old)) = old
    THEN new \o replace(SubSeq(s, Len(old) + 1, Len(s)), old, new)
  ELSE <<Head(s)>> \o replace(Tail(s), old, new)

\* the Python string of a sequence of characters
RECURSIVE Str(_)
Str(s) == IF s = <<>> THEN "" ELSE Head(s) \o Str(Tail(s))

Minor == <<" ", "m", "i", "n", "o", "r">>
Major == <<" ", "m", "a", "j", "o", "r">>

valid_keys ==
  {"C", "Cm", "C#", "C#m", "Db", "Dbm",
   "D", "Dm", "D#", "D#m", "Eb", "Ebm",
   "E", "Em",
   "F", "Fm", "F#", "F#m", "Gb", "Gbm",
   "G", "Gm", "G#", "G#m", "Ab", "Abm",
   "A", "Am", "A#", "A#m", "Bb", "Bbm",
   "B", "Bm"}

\* the token of the output of keyfinder-cli: the output stripped, and of
\* "filename\tkey" the last field, stripped
KeyToken(stdout) ==
  LET key_output == strip(stdout)
      tabs == {k \in 1..Len(key_output) : key_output[k] = "\t"}
  IN IF tabs # {}
       THEN strip(SubSeq(key_output, Max(tabs) + 1, Len(key_output)))
       ELSE strip(key_output)

\* the key of the output of a keyfinder-cli that exited with 0
ParseKey(stdout) ==
  LET key == KeyToken(stdout)
      key_normalized == replace(replace(key, Minor, <<"m">>), Major, <<>>)
  IN IF Str(key) \in valid_keys THEN Str(key)
     ELSE IF Str(key_normalized) \in valid_keys THEN Str(key_normalized)
     ELSE Str(key)

\* _analyze_key that parses the output whatever the exit code
_analyze_key_ignores_returncode(which, run, returncode, stdout) ==
  IF ~which THEN "None"
  ELSE IF run = "completed" THEN ParseKey(stdout)
  ELSE "None"

\* _analyze_key(file_path): which is whether shutil.which finds the tool,
\* run how subprocess.run ends ("completed", "TimeoutExpired" after 60
\* seconds, "Exception" for any other exception), returncode and stdout
\* what the tool gave if it completed. None is "None".
_analyze_key(which, run, returncode, stdout) ==
  IF ~which THEN "None"
  ELSE IF run = "completed" /\ returncode # 0 THEN "None"
  ELSE IF run = "completed" THEN ParseKey(stdout)
  ELSE "None"

\* ---------------------------------------------------------- ConfigService
SUPPORTED_METADATA_PLUGINS == <<"discogs", "spotify", "musicbrainz">>

\* the names of settings, as their characters
TokenKey == <<"t", "o", "k", "e", "n">>
SecretKey == <<"s", "e", "c", "r", "e", "t">>
ApiKey == <<"a", "p", "i", "_", "k", "e", "y">>
UserAgentKey == <<"u", "s", "e", "r", "_", "a", "g", "e", "n", "t">>

\* sub in s, of two strings
Contains(s, sub) ==
  \E k \in 1..(Len(s) - Len(sub) + 1) : SubSeq(s, k, k + Len(sub) - 1) = sub

\* the test that spares the key "secret"
Sensitive_token_or_key(key) ==
  Contains(key, TokenKey) \/ Contains(key, <<"k", "e", "y">>)

\* "token" in key or "secret" in key or "key" in key
Sensitive(key) ==
  Contains(key, TokenKey) \/ Contains(key, SecretKey) \/ Contains(key, <<"k", "e", "y">>)

\* no settings: {}
NoSettings == [key \in {} |-> ""]

\* the parsed config file: the plugins list and the sections, each a
\* dictionary of settings
ConfigData(plugins, sections) == [plugins |-> plugins, sections |-> sections]

\* config_data.get(plugin, {})
Section(config_data, plugin) ==
  IF plugin \in DOMAIN config_data.sections
    THEN config_data.sections[plugin] ELSE NoSettings

\* get_metadata_plugins_config() on the parsed config file
get_metadata_plugins_config(config_data) ==
  [plugin \in SeqToSet(SUPPORTED_METADATA_PLUGINS) |->
     LET plugin_settings == Section(config_data, plugin)
     IN [enabled |-> plugin \in SeqToSet(config_data.plugins),
         settings |-> [key \in DOMAIN plugin_settings |->
                         IF Sensitive(key) THEN "********"
                         ELSE plugin_settings[key]]]]

\* list.remove(x): the list without the first x
RECURSIVE Remove(_, _)
Remove(list, x) ==
  IF list = <<>> THEN <<>>
  ELSE IF Head(list) = x THEN Tail(list)
  ELSE <<Head(list)>> \o Remove(Tail(list), x)

\* update_metadata_plugin_config writing every setting it is given, the
\* redacted ones too
update_metadata_plugin_config_writes_redacted(config_data, plugin_name, settings, enabled) ==
  IF plugin_name \notin SeqToSet(SUPPORTED_METADATA_PLUGINS)
    THEN [exc |-> "ValueError", data |-> config_data]
  ELSE
    LET enabled_plugins == config_data.plugins
        listed == plugin_name \in SeqToSet(enabled_plugins)
        old == Section(config_data, plugin_name)
        section == [key \in DOMAIN old \cup DOMAIN settings |->
                      IF key \in DOMAIN settings THEN settings[key] ELSE old[key]]
        names == DOMAIN config_data.sections \cup {plugin_name}
    IN [exc |-> "None",
        data |-> ConfigData(
                   IF enabled /\ ~listed
                     THEN Append(enabled_plugins, plugin_name)
                   ELSE IF ~enabled /\ listed
                     THEN Remove(enabled_plugins, plugin_name)
                   ELSE enabled_plugins,
                   [name \in names |->
                      IF name = plugin_name THEN section
                      ELSE config_data.sections[name]])]

\* update_metadata_plugin_config(plugin_name, settings, enabled) on the
\* parsed config file: the exception raised, and the data to write
update_metadata_plugin_config(config_data, plugin_name, settings, enabled) ==
  IF plugin_name \notin SeqToSet(SUPPORTED_METADATA_PLUGINS)
    THEN [exc |-> "ValueError", data |-> config_data]
  ELSE
    LET enabled_plugins == config_data.plugins
        listed == plugin_name \in SeqToSet(enabled_plugins)
        old == Section(config_data, plugin_name)
        given == {key \in DOMAIN settings : settings[key] # "********"}
        section == [key \in DOMAIN old \cup given |->
                      IF key \in given THEN settings[key] ELSE old[key]]
        names == DOMAIN config_data.sections \cup {plugin_name}
    IN [exc |-> "None",
        data |-> ConfigData(
                   IF enabled /\ ~listed
                     THEN Append(enabled_plugins, plugin_name)
                   ELSE IF ~enabled /\ listed
                     THEN Remove(enabled_plugins, plugin_name)
                   ELSE enabled_plugins,
                   [name \in names |->
                      IF name = plugin_name THEN section
                      ELSE config_data.sections[name]])]

\* no call of the service has been made
NoServiceCall ==
  [op |-> "", plugin_name |-> "", settings |-> NoSettings, enabled |-> FALSE,
   exc |-> "None", plugins_config |-> <<>>]

\* the config file holding the data, no backup of it yet (backup: what the
\* .yaml.bak file holds once backed_up; copies: the copies of the file made
\* by the call of the service that is under way or was made last)
ConfigFile(data) ==
  [data |-> data, backed_up |-> FALSE, backup |-> data, copies |-> 0,
   call |-> NoServiceCall]

\* no config file is looked at
NoConfig == ConfigFile(ConfigData(<<>>, <<>>))

\* _write_config_yaml copying the file after it has written it
_write_config_yaml_backup_after_write(file, data) ==
  [file EXCEPT !.backed_up = TRUE, !.backup = data, !.copies = @ + 1,
               !.data = data]

\* _write_config_yaml(data): the file is copied to the backup, then written
_write_config_yaml(file, data) ==
  [file EXCEPT !.backed_up = TRUE, !.backup = file.data, !.copies = @ + 1,
               !.data = data]

\* no HTTP response, and no request body
NoResponse == [code |-> 0, job_id |-> 0, status |-> ""]

\* a JSON value of a request body, as far as the route looks at it: its type
\* ("absent" if the body has no such key), the items of a list, and whether
\* Python takes it for true
JsonValue(type, items, truthy) ==
  [type |-> type, items |-> items, truthy |-> truthy]
Absent == JsonValue("absent", <<>>, FALSE)

\* the JSON body of a request: present is whether request.get_json() gives
\* anything but None; a present body with all three keys absent is {}
Body(present, item_ids, analyze_bpm, analyze_key) ==
  [present |-> present, item_ids |-> item_ids, analyze_bpm |-> analyze_bpm,
   analyze_key |-> analyze_key]
NoBody == Body(FALSE, Absent, Absent, Absent)

\* no call of enqueue() is returning, and no request has been made
NoCall ==
  [kind |-> "", unexpected |-> FALSE, found |-> FALSE, db |-> "ok",
   exc |-> "None",
   named |-> {}, new |-> <<>>, job |-> 0, hash |-> "", extra_meta |-> "",
   data |-> NoBody, response |-> NoResponse]

Init ==
  /\ jobs = <<>>
  /\ preview_queue = <<>>
  /\ import_queue = <<>>
  /\ store = {}
  /\ last = NoCall
  /\ websocket = NoClient
  /\ config = NoConfig
  /\ analysis = NoAnalysis

\* the jobs and the lanes after a call whose outcome is r
Enqueued(r) ==
  LET n == Len(jobs)
      js == SubmitAll(jobs, r.new)
  IN /\ Len(js) <= MaxJobs
     /\ jobs' = js
     /\ preview_queue' = Pushed(preview_queue, js, "preview", n + 1, Len(js))
     /\ import_queue' = Pushed(import_queue, js, "import", n + 1, Len(js))

\* a caller calls enqueue(hash, Path, kind, extra_meta, **kwargs): PENDING is
\* emitted, then the body runs; the call and its outcome (with the folder
\* and the extra meta when jobs were submitted for them) are kept in last
\* until the caller has them; db is how the storage answers the call
Dispatch(kind, hash, extra_meta, kwargs, db) ==
  /\ last = NoCall
  /\ LET r == enqueue(hash, Path, kind, extra_meta, kwargs, Len(jobs), store, db)
     IN /\ Enqueued(r)
        /\ websocket' = send_status_update(
                          websocket, FolderStatusUpdate(hash, Path, "PENDING", r.job))
        /\ last' = [kind |-> kind,
                    unexpected |-> kwargs \ Schema(kind) # {},
                    found |-> /\ kind = "IMPORT_CANDIDATE"
                              /\ get_by_hash_and_path(hash, Path, store) # {},
                    db |-> db,
                    exc |-> r.exc, named |-> r.named,
                    new |-> [k \in 1..Len(r.new) |-> Len(jobs) + k],
                    job |-> r.job,
                    hash |-> IF r.exc = "None" THEN hash ELSE "",
                    extra_meta |-> IF r.exc = "None" THEN extra_meta ELSE "",
                    data |-> NoBody, response |-> NoResponse]
  /\ UNCHANGED <<store, analysis, config>>

\* the caller has the outcome of its call
Return ==
  /\ last # NoCall
  /\ last' = NoCall
  /\ UNCHANGED <<jobs, preview_queue, import_queue, store, websocket, analysis, config>>

\* enqueue() without its emit_folder_status(before=PENDING) decorator
DispatchJobs_without_pending(kind, hash, kwargs) ==
  /\ Len(jobs) < MaxJobs
  /\ LET r == enqueue(hash, Path, kind, "None", kwargs, Len(jobs), store, "ok")
     IN r.exc = "None" /\ Enqueued(r)
  /\ UNCHANGED <<store, last, websocket, analysis, config>>

\* a call of enqueue() that submits jobs, its outcome not kept, the storage
\* answering
DispatchJobs(kind, hash, kwargs) ==
  /\ Len(jobs) < MaxJobs
  /\ LET r == enqueue(hash, Path, kind, "None", kwargs, Len(jobs), store, "ok")
     IN /\ r.exc = "None"
        /\ Enqueued(r)
        /\ websocket' = send_status_update(
                          websocket, FolderStatusUpdate(hash, Path, "PENDING", r.job))
  /\ UNCHANGED <<store, last, analysis, config>>

\* a caller calls enqueue_delete_items(task_ids)
DeleteItems ==
  /\ Enqueued(enqueue_delete_items(Len(jobs)))
  /\ UNCHANGED <<store, last, websocket, analysis, config>>

\* a caller calls enqueue_analyze_attributes(item_ids, analyze_bpm, analyze_key)
AnalyzeAttributes(item_ids, analyze_bpm, analyze_key) ==
  /\ Enqueued(enqueue_analyze_attributes(item_ids, analyze_bpm, analyze_key,
                                         Len(jobs)))
  /\ UNCHANGED <<store, last, websocket, analysis, config>>

\* a caller calls get_metadata_plugins_config(); what it returns is kept
GetMetadataPluginsConfig ==
  /\ config' = [config EXCEPT
                  !.copies = 0,
                  !.call = [NoServiceCall EXCEPT
                              !.op = "get",
                              !.plugins_config =
                                get_metadata_plugins_config(config.data)]]
  /\ UNCHANGED <<jobs, preview_queue, import_queue, store, last, websocket,
                 analysis>>

\* a caller calls update_metadata_plugin_config(plugin_name, settings,
\* enabled): the file is read, and unless the plugin is not supported, the
\* updated data are written over it
UpdateMetadataPluginConfig(plugin_name, settings, enabled) ==
  /\ LET r == update_metadata_plugin_config(config.data, plugin_name, settings,
                                            enabled)
         call == [NoServiceCall EXCEPT !.op = "update",
                                       !.plugin_name = plugin_name,
                                       !.settings = settings,
                                       !.enabled = enabled, !.exc = r.exc]
         file == [config EXCEPT !.copies = 0]
     IN config' = IF r.exc = "None"
                    THEN [_write_config_yaml(file, r.data) EXCEPT !.call = call]
                    ELSE [file EXCEPT !.call = call]
  /\ UNCHANGED <<jobs, preview_queue, import_queue, store, last, websocket,
                 analysis>>

\* ------------------------------------------------------- POST /analyze
\* the status of the response to a request that raises the exception
StatusCode(exc) == IF exc = "InvalidUsageException" THEN 400 ELSE 500

\* not data: no body, or the empty dictionary
Empty(data) ==
  \/ ~data.present
  \/ /\ data.item_ids = Absent
     /\ data.analyze_bpm = Absent
     /\ data.analyze_key = Absent

\* data.get(key, True) of a flag
GetFlag(value) == IF value = Absent THEN TRUE ELSE value.truthy

\* analyze_items without isinstance(item_ids, list)
analyze_items_any_truthy(data, n) ==
  IF Empty(data)
    THEN Raised("InvalidUsageException", {})
  ELSE IF ~data.item_ids.truthy
    THEN Raised("InvalidUsageException", {})
  ELSE enqueue_analyze_attributes(data.item_ids.items,
                                  GetFlag(data.analyze_bpm),
                                  GetFlag(data.analyze_key), n)

\* analyze_items(): the outcome of the route on the body data, the queue
\* holding n jobs
analyze_items(data, n) ==
  IF Empty(data)
    THEN Raised("InvalidUsageException", {})
  ELSE IF ~data.item_ids.truthy \/ data.item_ids.type # "list"
    THEN Raised("InvalidUsageException", {})
  ELSE enqueue_analyze_attributes(data.item_ids.items,
                                  GetFlag(data.analyze_bpm),
                                  GetFlag(data.analyze_key), n)

\* a client posts the body data to /analyze; the request and its response
\* are kept in last
PostAnalyze(data) ==
  /\ last = NoCall
  /\ LET r == analyze_items(data, Len(jobs))
     IN /\ Enqueued(r)
        /\ last' = [NoCall EXCEPT
                      !.kind = "POST /analyze", !.exc = r.exc, !.named = r.named,
                      !.new = [k \in 1..Len(r.new) |-> Len(jobs) + k],
                      !.job = r.job, !.data = data,
                      !.response =
                        IF r.exc = "None"
                          THEN [code |-> 202, job_id |-> r.job, status |-> "queued"]
                          ELSE [code |-> StatusCode(r.exc), job_id |-> 0,
                                status |-> ""]]
  /\ UNCHANGED <<store, websocket, analysis, config>>

\* ----------------------------------------------------------- worker side
\* the job bodies that work on a folder's session
FolderBodies ==
  {"run_preview", "run_preview_add_candidates", "run_import_candidate",
   "run_import_auto", "run_import_bootleg", "run_import_undo"}

\* whether the body is decorated with exception_as_return_value
decorated(fn) == fn \in FolderBodies \cup {"run_analyze_attributes"}

\* the value the body returns when it does not raise
ReturnValue(fn) == IF fn = "run_analyze_attributes" THEN "results" ELSE "None"

\* exception_as_return_value: the wrapped body never raises to rq; what it
\* raised comes back as the result, a payload with the exception's type
exception_as_return_value(exc) ==
  [raised |-> "None", result |-> exc]

\* what rq sees of the function fn whose body ended with exc
Outcome(fn, exc) ==
  IF exc = "None" THEN [raised |-> "None", result |-> ReturnValue(fn)]
  ELSE IF decorated(fn) THEN exception_as_return_value(exc)
  ELSE [raised |-> exc, result |-> "None"]

\* rq when the function of job j has ended with exc: the job is finished if
\* the function returned and failed if it raised, and only a finished job
\* has its deferred dependents queued
Complete(js, j, exc) ==
  LET out == Outcome(js[j].fn, exc)
  IN [k \in DOMAIN js |->
        IF k = j
          THEN [js[k] EXCEPT !.status = IF out.raised = "None" THEN "finished"
                                         ELSE "failed",
                             !.pc = "done", !.result = out.result,
                             !.live = NoState, !.max_rev = -1]
        ELSE IF js[k].depends_on = j /\ js[k].status = "deferred"
                /\ out.raised = "None"
          THEN [js[k] EXCEPT !.status = "queued"]
        ELSE js[k]]

\* rq's success callback of job j, which has ended as js2[j]: called when the
\* job finished and has an on_success hook
OnSuccess(ws, js2, j) ==
  IF js2[j].status = "finished" /\ js2[j].on_success
    THEN emit_update_on_job_change(ws, js2[j], j, js2[j].result,
                                   ResultValue(js2[j].result))
    ELSE ws

\* the lane's queue after job j was taken from it and the jobs that js2
\* newly has queued were appended
LaneAfter(queue, lane, j, js, js2) ==
  LET ids == [k \in 1..Len(js) |-> k]
  IN SelectSeq(queue, LAMBDA k : k # j)
       \o SelectSeq(ids, LAMBDA k : js[k].status = "deferred"
                                      /\ js2[k].status = "queued"
                                      /\ js2[k].lane = lane)

Queue(lane) == IF lane = "preview" THEN preview_queue ELSE import_queue

NumWorkers(lane) ==
  IF lane = "preview" THEN NumPreviewWorkers ELSE NumImportWorkers

Started(lane) ==
  {k \in DOMAIN jobs : jobs[k].lane = lane /\ jobs[k].status = "started"}

\* a worker of the lane is free and job j is at the head of the lane's queue
Takes(j) ==
  /\ j \in DOMAIN jobs
  /\ Queue(jobs[j].lane) # <<>>
  /\ Head(Queue(jobs[j].lane)) = j
  /\ Cardinality(Started(jobs[j].lane)) < NumWorkers(jobs[j].lane)

\* the before status with before and after swapped
before_swapped(fn) ==
  CASE fn \in {"run_preview", "run_preview_add_candidates"} -> "PREVIEWED"
    [] fn \in {"run_import_candidate", "run_import_auto", "run_import_bootleg"} ->
         "IMPORTED"
    [] fn = "run_import_undo" -> "DELETED"
    [] OTHER -> "None"

\* the before status of the body's emit_folder_status decorator
before(fn) ==
  CASE fn \in {"run_preview", "run_preview_add_candidates"} -> "PREVIEWING"
    [] fn \in {"run_import_candidate", "run_import_auto", "run_import_bootleg"} ->
         "IMPORTING"
    [] fn = "run_import_undo" -> "DELETING"
    [] OTHER -> "None"

\* the after status of the body's emit_folder_status decorator
after(fn) ==
  CASE fn \in {"run_preview", "run_preview_add_candidates"} -> "PREVIEWED"
    [] fn \in {"run_import_candidate", "run_import_auto", "run_import_bootleg"} ->
         "IMPORTED"
    [] fn = "run_import_undo" -> "DELETED"
    [] OTHER -> "None"

\* emit_folder_status: the status of the folder of job j is sent, if one is set
emit_folder_status(ws, status, job, j) ==
  IF status = "None" THEN ws
  ELSE send_status_update(ws, FolderStatusUpdate(job.hash, job.path, status, j))

\* every body passing create_if_not_exists=True
create_if_not_exists_always(fn) == TRUE

\* whether the job body passes create_if_not_exists=True
create_if_not_exists(fn) == fn = "run_import_bootleg"

\* the possible results of the body of job j up to its session's run: the
\* exception raised or the live state the session runs on
LoadState(j, st, f_on_disk_hash) ==
  IF jobs[j].extra
    THEN {[exc |-> "TypeError", state |-> NoState]}
  ELSE IF jobs[j].fn = "run_preview"
    THEN {[exc |-> "None",
           state |-> SessionState(f_on_disk_hash, jobs[j].path, j)]}
  ELSE _get_live_state_by_folder(jobs[j].hash, jobs[j].path, st, f_on_disk_hash,
                                 create_if_not_exists(jobs[j].fn), j)

\* the session's run_async works on the live state, then returns (exc is
\* "None") or raises exc; the preview body goes on to read the max revision
AfterRun(job, j, state, exc) ==
  [job EXCEPT !.status = "started",
              !.live = [state EXCEPT !.tasks = @ \cup {j}],
              !.outcome = exc,
              !.pc = IF job.fn = "run_preview" THEN "max" ELSE "commit"]

\* a worker of the lane takes the folder job at the head of the queue: the
\* before status is emitted and the body runs up to the end of the session's
\* run, which ends with exc; a body that raises before that ends here, with
\* the after status and the job's update. f_on_disk_hash is the hash
\* FolderInDb.get_current_on_disk finds
Start(j, exc, f_on_disk_hash) ==
  /\ Takes(j)
  /\ jobs[j].fn \in FolderBodies
  /\ \E r \in LoadState(j, store, f_on_disk_hash) :
       LET js2 == IF r.exc # "None"
                    THEN Complete(jobs, j, r.exc)
                    ELSE [jobs EXCEPT ![j] = AfterRun(jobs[j], j, r.state, exc)]
           ws1 == emit_folder_status(websocket, before(jobs[j].fn), jobs[j], j)
           ws2 == emit_folder_status(ws1, after(jobs[j].fn), jobs[j], j)
       IN /\ jobs' = js2
          /\ preview_queue' = LaneAfter(preview_queue, "preview", j, jobs, js2)
          /\ import_queue' = LaneAfter(import_queue, "import", j, jobs, js2)
          /\ websocket' = IF r.exc # "None" THEN OnSuccess(ws2, js2, j) ELSE ws1
  /\ UNCHANGED <<store, last, analysis, config>>

\* a worker of the import lane takes the delete_items or
\* run_analyze_attributes job at the head of the queue and runs its body,
\* which ends with exc
RunItems(j, exc) ==
  /\ Takes(j)
  /\ jobs[j].fn \notin FolderBodies
  /\ LET js2 == Complete(jobs, j, exc)
     IN /\ jobs' = js2
        /\ preview_queue' = LaneAfter(preview_queue, "preview", j, jobs, js2)
        /\ import_queue' = LaneAfter(import_queue, "import", j, jobs, js2)
        /\ websocket' = OnSuccess(websocket, js2, j)
  /\ UNCHANGED <<store, last, analysis, config>>

\* select max(folder_revision) where folder_hash == hash; -1 stands for None
max_rev(hash, st) ==
  LET revs == {r.folder_revision : r \in {q \in st : q.folder_hash = hash}}
  IN IF revs = {} THEN -1 ELSE Max(revs)

\* the new revision without the increment
new_rev_no_increment(max) == IF max = -1 THEN 0 ELSE max

new_rev(max) == IF max = -1 THEN 0 ELSE max + 1

\* run_preview reads the max revision of the hash it was given
ReadMax(j) ==
  /\ j \in DOMAIN jobs
  /\ jobs[j].pc = "max"
  /\ jobs' = [jobs EXCEPT ![j].max_rev = max_rev(jobs[j].hash, store),
                          ![j].pc = "commit"]
  /\ UNCHANGED <<preview_queue, import_queue, store, last, websocket, analysis, config>>

\* SessionStateInDb.from_live_state, and for a preview the new revision
from_live_state(job) ==
  IF job.fn = "run_preview"
    THEN [job.live EXCEPT !.folder_revision = new_rev(job.max_rev)]
    ELSE job.live

\* a merge that keeps what the stored record of the same id holds
merge_keeps_tasks(st, rec) ==
  {r \in st : r.id # rec.id}
    \cup {[rec EXCEPT !.tasks = @ \cup UNION {r.tasks : r \in {q \in st : q.id = rec.id}}]}

\* db_session.merge and commit: insert, or replace the record of the same id
merge(st, rec) == {r \in st : r.id # rec.id} \cup {rec}

\* the write-back after the run instead of in a finally block
writes_back_on_success(exc) == exc = "None"

\* whether the finally block of a body that ended with exc writes back
writes_back(exc) == TRUE

\* the finally block of the body, then the body returns or re-raises: the
\* after status is emitted, then rq has the job's result and calls the hook
Commit(j) ==
  /\ j \in DOMAIN jobs
  /\ jobs[j].pc = "commit"
  /\ LET rec == from_live_state(jobs[j])
         js2 == Complete([jobs EXCEPT ![j].live = rec], j, jobs[j].outcome)
     IN /\ store' = IF writes_back(jobs[j].outcome) THEN merge(store, rec)
                    ELSE store
        /\ jobs' = js2
        /\ preview_queue' = LaneAfter(preview_queue, "preview", j, jobs, js2)
        /\ import_queue' = LaneAfter(import_queue, "import", j, jobs, js2)
        /\ websocket' =
             OnSuccess(emit_folder_status(websocket, after(jobs[j].fn), jobs[j], j),
                       js2, j)
  /\ UNCHANGED <<last, analysis, config>>

Next ==
  \/ \E kind \in DispatchKinds, hash \in Hashes :
       \E kwargs \in KwargSets(kind) : DispatchJobs(kind, hash, kwargs)
  \/ \E j \in 1..MaxJobs, exc \in {"None", "Exception"}, f_on_disk_hash \in Hashes :
       Start(j, exc, f_on_disk_hash)
  \/ \E j \in 1..MaxJobs : ReadMax(j)
  \/ \E j \in 1..MaxJobs : Commit(j)

\* the workers of the two lanes run the jobs that calls of enqueue() submit,
\* the folder's content changing at any time
Spec == Init /\ [][Next]_vars

\* a worker takes a job only when no body is running, and finds the folder
\* on disk with the hash the job was given
StartAlone(j, exc) ==
  /\ \A k \in DOMAIN jobs : jobs[k].status # "started"
  /\ Start(j, exc, jobs[j].hash)

NextSequential ==
  \/ \E kind \in DispatchKinds, hash \in Hashes :
       \E kwargs \in KwargSets(kind) : Dispatch(kind, hash, "None", kwargs, "ok")
  \/ Return
  \/ \E j \in 1..MaxJobs, exc \in {"None", "Exception"} : StartAlone(j, exc)
  \/ \E j \in 1..MaxJobs : ReadMax(j)
  \/ \E j \in 1..MaxJobs : Commit(j)

\* calls of enqueue() with their outcomes, the jobs running one after
\* another on a folder whose content does not change
SpecSequential == Init /\ [][NextSequential]_vars

NextChanged ==
  \/ \E hash \in Hashes :
       \E kwargs \in KwargSets("PREVIEW") : DispatchJobs("PREVIEW", hash, kwargs)
  \/ \E j \in 1..MaxJobs, exc \in {"None", "Exception"}, f_on_disk_hash \in Hashes :
       /\ \A k \in DOMAIN jobs : jobs[k].status # "started"
       /\ Start(j, exc, f_on_disk_hash)
  \/ \E j \in 1..MaxJobs : ReadMax(j)
  \/ \E j \in 1..MaxJobs : Commit(j)

\* previews running one after another on a folder whose content changes at
\* any time
SpecChanged == Init /\ [][NextChanged]_vars

\* the folder whose jobs the lanes' specifications follow
Folder == "h1"

NextLanes ==
  \/ \E kind \in DispatchKinds :
       \E kwargs \in KwargSets(kind) : DispatchJobs(kind, Folder, kwargs)
  \/ DeleteItems
  \/ AnalyzeAttributes(<<1>>, TRUE, TRUE)
  \/ \E j \in 1..MaxJobs, exc \in {"None", "Exception"} : Start(j, exc, Folder)
  \/ \E j \in 1..MaxJobs, exc \in {"None", "Exception"} : RunItems(j, exc)
  \/ \E j \in 1..MaxJobs : ReadMax(j)
  \/ \E j \in 1..MaxJobs : Commit(j)

\* the workers of the two lanes run the jobs of every kind submitted for one
\* folder, for task ids and for item ids
SpecLanes == Init /\ [][NextLanes]_vars

\* a websocket client listens from the start
InitListening ==
  /\ jobs = <<>>
  /\ preview_queue = <<>>
  /\ import_queue = <<>>
  /\ store = {}
  /\ last = NoCall
  /\ websocket = Listening
  /\ config = NoConfig
  /\ analysis = NoAnalysis

\* the same, with the status updates a listening client receives
SpecStatus == InitListening /\ [][NextLanes]_vars

\* a call of enqueue() that submits one job has come as far as
\* queue.enqueue: PENDING has been emitted and the job is in its lane, as
\* queue.enqueue made it, _set_job_meta not yet called; the call is kept in
\* last until it has tagged the job
QueueEnqueue(kind, hash, extra_meta, kwargs) ==
  /\ last = NoCall
  /\ LET r == enqueue(hash, Path, kind, extra_meta, kwargs, Len(jobs), store, "ok")
         untagged == [k \in DOMAIN r.new |-> _set_job_meta(r.new[k], "", "", "", "")]
     IN /\ r.exc = "None"
        /\ Len(r.new) = 1
        /\ Enqueued([r EXCEPT !.new = untagged])
        /\ websocket' = send_status_update(
                          websocket, FolderStatusUpdate(hash, Path, "PENDING", r.job))
        /\ last' = [NoCall EXCEPT !.kind = kind, !.new = <<r.job>>, !.job = r.job,
                                  !.hash = hash,
                                  !.extra_meta = r.new[1].extra_meta]
  /\ UNCHANGED <<store, analysis, config>>

\* the call goes on to _set_job_meta(job, hash, path, kind, extra_meta) and
\* returns the job
SetJobMeta ==
  /\ last # NoCall
  /\ jobs' = [jobs EXCEPT ![last.job] =
                _set_job_meta(@, last.hash, Path, last.kind, last.extra_meta)]
  /\ last' = NoCall
  /\ UNCHANGED <<preview_queue, import_queue, store, websocket, analysis, config>>

NextTag ==
  \/ \E kind \in DispatchKinds, extra_meta \in ExtraMetas :
       \E kwargs \in KwargSets(kind) : QueueEnqueue(kind, Folder, extra_meta, kwargs)
  \/ SetJobMeta
  \/ \E j \in 1..MaxJobs, exc \in {"None", "Exception"} : Start(j, exc, Folder)
  \/ \E j \in 1..MaxJobs : ReadMax(j)
  \/ \E j \in 1..MaxJobs : Commit(j)

\* the dispatcher between queue.enqueue and _set_job_meta, and the workers
\* of the two lanes, with the status updates a listening client receives
SpecTag == InitListening /\ [][NextTag]_vars

\* the session an earlier preview of the folder has persisted
PersistedSession ==
  [id |-> -1, folder_hash |-> Folder, folder_path |-> Path,
   folder_revision |-> 0, tasks |-> {-1}]

\* no job yet; the store is empty or holds the session of an earlier preview
InitStored ==
  /\ jobs = <<>>
  /\ preview_queue = <<>>
  /\ import_queue = <<>>
  /\ store \in {{}, {PersistedSession}}
  /\ last = NoCall
  /\ websocket = NoClient
  /\ config = NoConfig
  /\ analysis = NoAnalysis

NextDispatch ==
  \/ \E kind \in DispatchKinds, hash \in Hashes, extra_meta \in ExtraMetas :
       \E kwargs \in KwargSets(kind),
          db \in IF kind = "IMPORT_CANDIDATE" THEN {"ok", "OperationalError"}
                 ELSE {"ok"} :
         Dispatch(kind, hash, extra_meta, kwargs, db)
  \/ Return

\* calls of enqueue() with any extra meta, with their outcomes
SpecDispatch == InitStored /\ [][NextDispatch]_vars

NextRace ==
  \/ \E kind \in DispatchKinds :
       \E kwargs \in KwargSets(kind) : DispatchJobs(kind, Folder, kwargs)
  \/ \E j \in 1..MaxJobs, exc \in {"None", "Exception"} : Start(j, exc, Folder)
  \/ \E j \in 1..MaxJobs : ReadMax(j)
  \/ \E j \in 1..MaxJobs : Commit(j)

\* the workers of the two lanes run the jobs submitted for a folder that an
\* earlier preview may have left a session of
SpecRace == InitStored /\ [][NextRace]_vars

\* the lists of at most MaxItems item ids
ItemIdLists == UNION {[1..n -> ItemIds] : n \in 0..MaxItems}

\* run_analyze_attributes has been called with a list of item ids and the
\* two flags, and has opened the library
InitAnalysis ==
  /\ jobs = <<>>
  /\ preview_queue = <<>>
  /\ import_queue = <<>>
  /\ store = {}
  /\ last = NoCall
  /\ websocket = NoClient
  /\ config = NoConfig
  /\ \E item_ids \in ItemIdLists, analyze_bpm \in BOOLEAN, analyze_key \in BOOLEAN :
       analysis = Analysis(item_ids, analyze_bpm, analyze_key)

\* the loop handles the next item id
AnalyzeItem(bpm, key, raised) ==
  /\ analysis.pc = "loop"
  /\ analysis.i <= Len(analysis.item_ids)
  /\ analysis' = analyze_item(analysis, bpm, key, raised)
  /\ UNCHANGED <<jobs, preview_queue, import_queue, store, last, websocket, config>>

\* the close paths the handle exposes, in the order of the cleanup
Exposed(a) ==
  LET exposed(path) == path \in a.handle.exposes
  IN SelectSeq(ClosePaths, exposed)

\* the cleanup closing whatever handle the run used
cleanup_of_any_handle(a, fails) ==
  IF a.close_library
    THEN [a EXCEPT !.handle.called = Exposed(a),
                   !.handle.failed = fails \cap a.handle.exposes,
                   !.handle.connection_reset =
                     "_connection" \in a.handle.exposes \ fails,
                   !.handle.collected = TRUE]
    ELSE a

\* the finally block of run_analyze_attributes: fails are the close paths
\* that raise. Each path is tried under its own suppress(Exception), the
\* _connection attribute is reset if its close() returned, and gc.collect()
\* ends the block.
cleanup(a, fails) ==
  IF a.managed_library /\ a.close_library
    THEN [a EXCEPT !.handle.called = Exposed(a),
                   !.handle.failed = fails \cap a.handle.exposes,
                   !.handle.connection_reset =
                     "_connection" \in a.handle.exposes \ fails,
                   !.handle.collected = TRUE]
    ELSE a

\* the loop is through: return results, and clean up on the way out
ReturnResults(fails) ==
  /\ analysis.pc = "loop"
  /\ analysis.i > Len(analysis.item_ids)
  /\ analysis' =
       cleanup([analysis EXCEPT !.pc = "done", !.returned = "results"], fails)
  /\ UNCHANGED <<jobs, preview_queue, import_queue, store, last, websocket, config>>

\* the loop handles the next item id, with _analyze_bpm and _analyze_key
\* run on the file of the item
AnalyzeTrack(raised) ==
  /\ analysis.pc = "loop"
  /\ analysis.i <= Len(analysis.item_ids)
  /\ LET x == analysis.item_ids[analysis.i]
         f == analysis.files[x]
         bpm == IF x \in DOMAIN analysis.files
                  THEN ItemBpm(_analyze_bpm(f.aubio, f.beats, f.get_bpm))
                  ELSE NoBpm
         key == IF x \in DOMAIN analysis.files
                  THEN _analyze_key(f.which, f.run, f.returncode, f.stdout)
                  ELSE "None"
     IN analysis' = analyze_item(analysis, bpm, key, raised)
  /\ UNCHANGED <<jobs, preview_queue, import_queue, store, last, websocket, config>>

NextAnalysis ==
  \/ \E bpm \in {NoBpm, 128}, key \in {"None", "Cm"},
        raised \in {"None", "analyze", "store", "write"} :
       AnalyzeItem(bpm, key, raised)
  \/ \E fails \in SUBSET SeqToSet(ClosePaths) : ReturnResults(fails)

\* one call of run_analyze_attributes
SpecAnalysis == InitAnalysis /\ [][NextAnalysis]_vars

\* a file with a steady beat of 120 bpm, and what keyfinder-cli does on it
Heard(which, run, returncode) ==
  AudioFile("ok", <<0, 50>>, Whole(120), which, run, returncode, <<"A", "m">>)

\* the timestamps of beats that are the gaps apart, the first one at 0
RECURSIVE Beats(_)
Beats(gaps) ==
  IF gaps = <<>> THEN <<0>>
  ELSE LET earlier == Beats(SubSeq(gaps, 1, Len(gaps) - 1))
       IN Append(earlier, earlier[Len(earlier)] + gaps[Len(gaps)])

\* the files tempo estimation is tried on: those aubio reads, and one each
\* for aubio missing and aubio raising. The time between two beats, in
\* ticks, is none or that of 545, 500, 300, 260, 250, 120, 40, 39.7, 30, 20,
\* 19.9 and 10 beats per minute; aubio detects no beat, or up to MaxBeats;
\* tempo.get_bpm() gives 0, 39.9, 40, 120, 120.5, 250 or 250.1
BpmFiles ==
  LET Gaps == {0, 11, 12, 20, 23, 24, 50, 150, 151, 200, 300, 301, 600}
      BeatLists ==
        {<<>>} \cup {Beats(gaps) :
                       gaps \in UNION {[1..n -> Gaps] : n \in 0..(MaxBeats - 1)}}
      Estimates ==
        {Whole(0), Fraction(399, 10), Whole(40), Whole(120), Fraction(241, 2),
         Whole(250), Fraction(2501, 10)}
  IN {AudioFile("ok", beats, get_bpm, FALSE, "completed", 0, <<>>) :
        beats \in BeatLists, get_bpm \in Estimates}
     \cup {AudioFile(aubio, <<>>, Whole(0), FALSE, "completed", 0, <<>>) :
             aubio \in {"ImportError", "Exception"}}

\* the pieces of a sequence of pieces joined
RECURSIVE Joined(_)
Joined(pieces) ==
  IF pieces = <<>> THEN <<>> ELSE Head(pieces) \o Joined(Tail(pieces))

\* the outputs of a keyfinder-cli that exits with 0: up to MaxAtoms pieces,
\* which are pitch classes and keys, " minor" and " major", a tab, a blank,
\* a newline, and a letter of a file name
Outputs ==
  LET Atoms == {<<"C">>, <<"A", "m">>, <<"#">>, Minor, Major, <<"\t">>,
                <<" ">>, <<"\n">>, <<"f">>}
  IN {Joined(pieces) : pieces \in UNION {[1..n -> Atoms] : n \in 0..MaxAtoms}}

\* run_analyze_attributes has been called
InitFiles ==
  /\ jobs = <<>>
  /\ preview_queue = <<>>
  /\ import_queue = <<>>
  /\ store = {}
  /\ last = NoCall
  /\ websocket = NoClient
  /\ config = NoConfig
  /\ \* on a library for whose files keyfinder-cli is missing, prints a
     \* key, exits with 1, times out, or fails to run
     \/ \E item_ids \in ItemIdLists, analyze_bpm \in BOOLEAN,
           analyze_key \in BOOLEAN,
           files \in [LibraryItems ->
                        {Heard(FALSE, "completed", 0),
                         Heard(TRUE, "completed", 0),
                         Heard(TRUE, "completed", 1),
                         Heard(TRUE, "TimeoutExpired", 0),
                         Heard(TRUE, "Exception", 0)}] :
          analysis = [Analysis(item_ids, analyze_bpm, analyze_key)
                        EXCEPT !.files = files]
     \* as run_analyze_attributes([1], analyze_bpm=True, analyze_key=False),
     \* the file of item 1 being any of BpmFiles
     \/ \E f \in BpmFiles :
          analysis = [Analysis(<<1>>, TRUE, FALSE) EXCEPT !.files[1] = f]
     \* as run_analyze_attributes([1], analyze_bpm=False, analyze_key=True),
     \* keyfinder-cli printing any of Outputs for the file of item 1
     \/ \E stdout \in Outputs :
          analysis =
            [Analysis(<<1>>, FALSE, TRUE)
               EXCEPT !.files[1] =
                        AudioFile("ok", <<>>, Whole(0), TRUE, "completed", 0,
                                  stdout)]
     \* with a library of the caller (lib given, managed_library false) or
     \* having opened one itself, with close_library either way, the handle
     \* exposing any of the close paths
     \/ \E item_ids \in ItemIdLists, managed_library \in BOOLEAN,
           close_library \in BOOLEAN, exposes \in SUBSET SeqToSet(ClosePaths) :
          analysis = [Analysis(item_ids, TRUE, TRUE)
                        EXCEPT !.managed_library = managed_library,
                               !.close_library = close_library,
                               !.handle = Handle(exposes)]

NextFiles ==
  \/ \E raised \in {"None", "store"} : AnalyzeTrack(raised)
  \/ \E fails \in SUBSET SeqToSet(ClosePaths) : ReturnResults(fails)

\* one call of run_analyze_attributes, the tools run on the files of the
\* items, and the cleanup of its library handle
SpecFiles == InitFiles /\ [][NextFiles]_vars

\* the request bodies: none, and the dictionaries of the three keys. The
\* values of item_ids are: missing, null, "", a string, 0, a number, and the
\* lists of at most MaxItems item ids; those of a flag: missing, true, false
Bodies ==
  LET ItemIdValues ==
        {Absent, JsonValue("null", <<>>, FALSE), JsonValue("str", <<>>, FALSE),
         JsonValue("str", <<>>, TRUE), JsonValue("int", <<>>, FALSE),
         JsonValue("int", <<>>, TRUE)}
        \cup {JsonValue("list", item_ids, item_ids # <<>>) :
                item_ids \in ItemIdLists}
      FlagValues == {Absent} \cup {JsonValue("bool", <<>>, b) : b \in BOOLEAN}
  IN {NoBody} \cup {Body(TRUE, item_ids, analyze_bpm, analyze_key) :
                      item_ids \in ItemIdValues, analyze_bpm \in FlagValues,
                      analyze_key \in FlagValues}

NextRoute ==
  \/ DeleteItems
  \/ \E data \in Bodies : PostAnalyze(data)

\* one request to POST /analyze, other jobs being queued before and after
SpecRoute == Init /\ [][NextRoute]_vars

\* the sections of a config file: of every name either none (a set without
\* an element) or the one of the set
Sections(of) ==
  [name \in {n \in DOMAIN of : of[n] # {}} |-> CHOOSE x \in of[name] : TRUE]

\* no section, or one of the sections
Optional(sections) == {{}} \cup {{x} : x \in sections}

\* the config files that are read: the plugins list of the tests and
\* others, discogs with any of token, secret and user_agent, each "a" or
\* "b", spotify with an api_key, musicbrainz without settings, autobpm with
\* max_tempo
ReadFiles ==
  LET SettingValues == {"a", "b"}
      SettingsOver(keys) == UNION {[K -> SettingValues] : K \in SUBSET keys}
  IN {ConfigData(plugins,
                 Sections([discogs |-> discogs, spotify |-> spotify,
                           musicbrainz |-> musicbrainz, autobpm |-> autobpm])) :
        plugins \in {<<>>, <<"discogs", "musicbrainz", "keyfinder">>,
                     <<"spotify">>, <<"autobpm", "discogs">>},
        discogs \in Optional(SettingsOver({TokenKey, SecretKey, UserAgentKey})),
        spotify \in Optional([{ApiKey} -> SettingValues]),
        musicbrainz \in Optional({NoSettings}),
        autobpm \in Optional({[key \in {<<"m", "a", "x", "_", "t", "e", "m",
                                           "p", "o">>} |-> "a"]})}

InitConfigRead ==
  /\ jobs = <<>>
  /\ preview_queue = <<>>
  /\ import_queue = <<>>
  /\ store = {}
  /\ last = NoCall
  /\ websocket = NoClient
  /\ analysis = NoAnalysis
  /\ \E data \in ReadFiles : config = ConfigFile(data)

NextConfigRead == GetMetadataPluginsConfig

\* the metadata plugins of a config file are read
SpecConfigRead == InitConfigRead /\ [][NextConfigRead]_vars

\* update_metadata_plugin_config is called on config files with plugins
\* lists as they are written by hand, one of them naming a plugin twice,
\* and spotify with or without its api_key
InitConfigUpdate ==
  /\ jobs = <<>>
  /\ preview_queue = <<>>
  /\ import_queue = <<>>
  /\ store = {}
  /\ last = NoCall
  /\ websocket = NoClient
  /\ analysis = NoAnalysis
  /\ \E plugins \in {<<>>, <<"discogs", "musicbrainz", "keyfinder">>,
                     <<"spotify", "discogs", "spotify">>},
        spotify \in Optional([{ApiKey} -> {"a"}]) :
       config = ConfigFile(ConfigData(plugins, Sections([spotify |-> spotify])))

\* an update of a supported plugin or of one that is not, with no
\* settings, a new api_key, or the redacted api_key as
\* get_metadata_plugins_config() returned it
NextConfigUpdate ==
  \E plugin_name \in SeqToSet(SUPPORTED_METADATA_PLUGINS) \cup {"keyfinder"},
     settings \in {NoSettings, [key \in {ApiKey} |-> "b"],
                   [key \in {ApiKey} |-> "********"]},
     enabled \in BOOLEAN :
    UpdateMetadataPluginConfig(plugin_name, settings, enabled)

\* metadata plugins of a config file are updated, one update after another
SpecConfigUpdate == InitConfigUpdate /\ [][NextConfigUpdate]_vars

\* the results the hook is tried on: no value, an analysis report, mappings
\* with one or both of the keys, a list of the two keys, exception payloads
HookResults ==
  {"None", "results", "{type}", "{message}", "{type, message}",
   "[type, message]", "Exception", "InvalidUsageException"}

\* a job of any kind has finished with any of the results, its hook not yet
\* called
InitHook ==
  /\ \E kind \in EnqueueKind, hash \in Hashes, extra_meta \in ExtraMetas,
        result \in HookResults :
       jobs = <<[_set_job_meta(_enqueue("run_preview", "preview", hash, Path, 0,
                                        FALSE),
                               hash, Path, kind, extra_meta)
                   EXCEPT !.status = "finished", !.pc = "done",
                          !.result = result]>>
  /\ preview_queue = <<>>
  /\ import_queue = <<>>
  /\ store = {}
  /\ last = NoCall
  /\ websocket = Listening
  /\ config = NoConfig
  /\ analysis = NoAnalysis

\* rq calls the success callback of the finished job j
CallHook(j) ==
  /\ jobs[j].status = "finished"
  /\ websocket.received = <<>>
  /\ websocket' = OnSuccess(websocket, jobs, j)
  /\ UNCHANGED <<jobs, preview_queue, import_queue, store, last, analysis, config>>

NextHook == \E j \in 1..MaxJobs : j \in DOMAIN jobs /\ CallHook(j)

\* the completion hook called once for a finished job
SpecHook == InitHook /\ [][NextHook]_vars

\* ------------------------------------------------------------------ claims
\* the job's body has been started by a worker
BodyStarted(j) == jobs[j].status \in {"started", "finished", "failed"}

\* C1: a call of enqueue() with kind IMPORT_AUTO and kwargs within the
\* kind's schema raises nothing and submits exactly two jobs: first a
\* run_preview job in the preview lane, then a run_import_auto job in the
\* import lane that depends on the first; the job returned is the second.
C1_AutoSubmitsTwoJobs ==
  (last.kind = "IMPORT_AUTO" /\ ~last.unexpected) =>
    /\ last.exc = "None"
    /\ Len(last.new) = 2
    /\ last.new[2] = last.new[1] + 1
    /\ Len(jobs) = last.new[2]
    /\ jobs[last.new[1]].fn = "run_preview"
    /\ jobs[last.new[1]].lane = "preview"
    /\ jobs[last.new[1]].depends_on = 0
    /\ jobs[last.new[2]].fn = "run_import_auto"
    /\ jobs[last.new[2]].lane = "import"
    /\ jobs[last.new[2]].depends_on = last.new[1]
    /\ last.job = last.new[2]

C1_Witness ==
  /\ last.kind = "IMPORT_AUTO" /\ ~last.unexpected
  /\ Len(last.new) = 2
  /\ last.new[1] \in SeqToSet(preview_queue)
  /\ jobs[last.new[2]].status = "deferred"

\* C2: the import job of an auto-import (the job submitted right after its
\* preview job) has its body started only when that preview job has
\* finished, whatever the workers of the two lanes do.
C2_ImportNotBeforePreview ==
  \A j \in DOMAIN jobs :
    (jobs[j].meta = "_AUTO_IMPORT" /\ BodyStarted(j)) =>
      jobs[j - 1].meta = "_AUTO_PREVIEW" /\ jobs[j - 1].status = "finished"

C2_Witness ==
  \E j \in DOMAIN jobs :
    /\ jobs[j].meta = "_AUTO_IMPORT" /\ jobs[j].status = "started"
    /\ jobs[j - 1].status = "finished"

\* C3 (as claimed): when the session run of the preview job of an
\* auto-import raised, the body of the import job is never started.
C3_FailedPreviewBlocksImport ==
  \A j \in DOMAIN jobs :
    (jobs[j].meta = "_AUTO_IMPORT" /\ jobs[j - 1].outcome = "Exception") =>
      ~BodyStarted(j)

\* C4 (as claimed): a call of enqueue() with one of the six supported kinds
\* and a kwarg key outside the kind's schema raises InvalidUsageException
\* with a message that names the keys of the schema.
C4_UnexpectedKwargRejected ==
  (last.kind \in SupportedKinds /\ last.unexpected) =>
    /\ last.exc = "InvalidUsageException"
    /\ last.named = Schema(last.kind)

\* C5: a call of enqueue() with kind IMPORT_CANDIDATE, kwargs within the
\* schema and no persisted session for (hash, path) raises nothing and
\* submits the two jobs of an auto-import: a run_preview job in the preview
\* lane and a run_import_auto job in the import lane that depends on it.
C5_CandidateFallsBackToAuto ==
  (last.kind = "IMPORT_CANDIDATE" /\ ~last.unexpected /\ ~last.found) =>
    /\ last.exc = "None"
    /\ Len(last.new) = 2
    /\ jobs[last.new[1]].fn = "run_preview"
    /\ jobs[last.new[1]].lane = "preview"
    /\ jobs[last.new[1]].meta = "_AUTO_PREVIEW"
    /\ jobs[last.new[2]].fn = "run_import_auto"
    /\ jobs[last.new[2]].lane = "import"
    /\ jobs[last.new[2]].meta = "_AUTO_IMPORT"
    /\ jobs[last.new[2]].depends_on = last.new[1]
    /\ last.job = last.new[2]

C5_Witness ==
  /\ last.kind = "IMPORT_CANDIDATE" /\ ~last.unexpected /\ ~last.found
  /\ Len(last.new) = 2
  /\ jobs[last.job].fn = "run_import_auto"

\* the records of the store that carry the hash, and their revisions
RecordsOf(h) == {r \in store : r.folder_hash = h}
RevisionsOf(h) == {r.folder_revision : r \in RecordsOf(h)}

\* the record was created by a run_preview job that was given the hash
\* the record carries
FromPreviewOfItsHash(r) ==
  /\ r.id \in DOMAIN jobs
  /\ jobs[r.id].fn = "run_preview"
  /\ jobs[r.id].hash = r.folder_hash

\* C6, a commit: a preview that runs with no other body running, on a
\* folder whose content is unchanged, adds exactly one record: a fresh
\* session holding only this preview's work, with the hash it was given and
\* the revision one above the largest revision stored for that hash (0 if
\* there is none); every record stored before is still there unchanged.
C6_PreviewCommitStep ==
  \A j \in DOMAIN jobs :
    (jobs[j].fn = "run_preview" /\ jobs[j].pc = "commit" /\ jobs'[j].pc = "done") =>
      /\ store \subseteq store'
      /\ \E r \in store' \ store :
           /\ store' = store \cup {r}
           /\ r.id = j
           /\ r.tasks = {j}
           /\ r.folder_hash = jobs[j].hash
           /\ r.folder_revision =
                IF RevisionsOf(jobs[j].hash) = {} THEN 0
                ELSE Max(RevisionsOf(jobs[j].hash)) + 1

\* C6, the history: when all the records of a hash come from previews of
\* that hash, k records are stored for it and their revisions are 0..k-1.
C6_RevisionsAreInitialSegment ==
  \A h \in Hashes :
    (\A r \in RecordsOf(h) : FromPreviewOfItsHash(r)) =>
      /\ RevisionsOf(h) = 0..(Cardinality(RecordsOf(h)) - 1)
      /\ Cardinality(RecordsOf(h)) =
           Cardinality({j \in DOMAIN jobs : /\ jobs[j].fn = "run_preview"
                                            /\ jobs[j].hash = h
                                            /\ jobs[j].pc = "done"})

C7_PreviewRevisionsDistinct ==
  \A r1, r2 \in store :
    (/\ r1 # r2
     /\ r1.folder_hash = r2.folder_hash
     /\ FromPreviewOfItsHash(r1)
     /\ FromPreviewOfItsHash(r2)) =>
      r1.folder_revision # r2.folder_revision

\* C8 (as claimed): the live session a job has looked up or created carries
\* the hash the job was given, for every kind of job, also when the
\* folder's hash on disk differs from it.
C8_LiveStateCarriesSuppliedHash ==
  \A j \in DOMAIN jobs :
    jobs[j].live # NoState => jobs[j].live.folder_hash = jobs[j].hash

\* C9: a job whose body has loaded or created its live session ends only
\* by writing that session (for a preview at its new revision) to the
\* store, whether the session's run returned or raised.
C9_WriteBackAlways ==
  [][\A j \in DOMAIN jobs :
       (jobs[j].pc \in {"max", "commit"} /\ jobs'[j].pc = "done") =>
         /\ jobs[j].pc = "commit"
         /\ from_live_state(jobs[j]) \in store'
         /\ j \in from_live_state(jobs[j]).tasks]_vars

C9_Witness ==
  \E j \in DOMAIN jobs :
    /\ jobs[j].pc = "done"
    /\ jobs[j].outcome = "Exception"
    /\ jobs[j].fn # "run_preview"
    /\ \E r \in store : j \in r.tasks

\* the four bodies that need a persisted session
NeedSession ==
  {"run_preview_add_candidates", "run_import_candidate", "run_import_auto",
   "run_import_undo"}

\* C10: when a worker takes a job and no session is persisted for the
\* job's (hash, path), an add-candidates, import-candidate, auto-import or
\* undo body ends at once with an InvalidUsageException payload and the
\* store is unchanged; a bootleg body creates a fresh session, and that
\* session is in the store when the body ends.
C10_MissingSession ==
  [][\A j \in DOMAIN jobs :
       /\ (/\ jobs[j].pc = "idle" /\ jobs'[j].pc # "idle"
           /\ ~jobs[j].extra
           /\ \A r \in store : ~(r.folder_hash = jobs[j].hash
                                 /\ r.folder_path = jobs[j].path)) =>
            /\ jobs[j].fn \in NeedSession =>
                 /\ jobs'[j].pc = "done"
                 /\ jobs'[j].result = "InvalidUsageException"
                 /\ jobs'[j].live = NoState
                 /\ store' = store
            /\ jobs[j].fn = "run_import_bootleg" =>
                 /\ jobs'[j].pc = "commit"
                 /\ jobs'[j].live.id = j
                 /\ \A r \in store : r.id # j
       /\ (/\ jobs[j].fn = "run_import_bootleg"
           /\ jobs[j].pc = "commit" /\ jobs'[j].pc = "done"
           /\ jobs[j].live.id = j) =>
            \E r \in store' : r.id = j /\ r = jobs[j].live]_vars

C10_Witness ==
  \E j, k \in DOMAIN jobs :
    /\ jobs[j].fn \in NeedSession
    /\ jobs[j].result = "InvalidUsageException"
    /\ jobs[k].fn = "run_import_bootleg"
    /\ jobs[k].pc = "done"
    /\ \E r \in store : r.id = k


\* C11 (as claimed): the function of every job the dispatch layer submits
\* returns to the queue and never raises: no job fails, and a job whose body
\* ended with an exception has that exception's payload as its result.
C11_BodiesNeverRaise ==
  \A j \in DOMAIN jobs :
    /\ jobs[j].status # "failed"
    /\ (jobs[j].pc = "done" /\ jobs[j].result \notin {"None", "results"}) =>
         {"type", "message"} \subseteq ResultValue(jobs[j].result).keys


\* the number of job status updates the client has received for job j
JobUpdates(j) ==
  Cardinality({k \in DOMAIN websocket.received :
                 /\ websocket.received[k].event = "job_status"
                 /\ websocket.received[k].job = j})

\* C12 (as claimed): every job the dispatch layer submits, the preview job
\* of an auto-import included, has the completion hook, and exactly one job
\* status update is emitted for every finished job.
C12_EveryJobHasHook ==
  \A j \in DOMAIN jobs :
    /\ jobs[j].on_success
    /\ jobs[j].status = "finished" => JobUpdates(j) = 1

\* C12 (amended): every job the dispatch layer submits has the completion
\* hook, except the preview job of an auto-import, which has none; exactly
\* one job status update is emitted for every finished job that has the
\* hook, and none for any other job.
C12_HookOnAllButAutoPreview ==
  \A j \in DOMAIN jobs :
    /\ jobs[j].on_success = (jobs[j].meta # "_AUTO_PREVIEW")
    /\ JobUpdates(j) =
         IF jobs[j].status = "finished" /\ jobs[j].meta # "_AUTO_PREVIEW"
           THEN 1 ELSE 0

C12_Witness ==
  \E j \in DOMAIN jobs :
    /\ jobs[j].meta = "_AUTO_IMPORT" /\ jobs[j].status = "finished"
    /\ jobs[j - 1].meta = "_AUTO_PREVIEW" /\ jobs[j - 1].status = "finished"
    /\ JobUpdates(j) = 1
    /\ JobUpdates(j - 1) = 0


\* C13: the job status update the completion hook sends carries the job's
\* result as exc exactly when the result is a mapping that holds both the
\* key type and the key message; for any other result (no value, an
\* analysis report, a mapping with one of the keys, a list of the two keys)
\* exc is None.
C13_HookForwardsSerializedException ==
  \A k \in DOMAIN websocket.received :
    LET update == websocket.received[k]
        result == jobs[update.job].result
        value == ResultValue(result)
    IN update.event = "job_status" =>
         /\ (value.mapping /\ {"type", "message"} \subseteq value.keys) =>
              update.exc = result
         /\ ~(value.mapping /\ {"type", "message"} \subseteq value.keys) =>
              update.exc = "None"

C13_Witness ==
  /\ Len(websocket.received) = 1
  /\ jobs[1].result = "[type, message]"
  /\ websocket.received[1].exc = "None"


\* the folder statuses the client has received about job j, in order
FolderStatuses(j) ==
  LET about == SelectSeq(websocket.received,
                         LAMBDA u : u.event = "folder_status" /\ u.job = j)
  IN [k \in 1..Len(about) |-> about[k].status]

\* the statuses a worker emits about job j: all but the PENDING of dispatch
WorkerStatuses(j) == SelectSeq(FolderStatuses(j), LAMBDA st : st # "PENDING")

PreviewKinds == {"PREVIEW", "PREVIEW_ADD_CANDIDATES", "_AUTO_PREVIEW"}
ImportKinds == {"IMPORT_CANDIDATE", "IMPORT_BOOTLEG", "_AUTO_IMPORT"}

\* C14: for a preview or add-candidates job the worker emits PREVIEWING when
\* it starts the body and PREVIEWED when the body has ended, for the three
\* import kinds IMPORTING and IMPORTED, for an undo DELETING and DELETED:
\* nothing before the body starts, the before status alone while it runs,
\* the before and then the after status once it has ended, whether it
\* returned or ended with an exception.
C14_BeforeAndAfterStatus ==
  \A j \in DOMAIN jobs :
    LET b == CASE jobs[j].meta \in PreviewKinds -> <<"PREVIEWING">>
               [] jobs[j].meta \in ImportKinds -> <<"IMPORTING">>
               [] jobs[j].meta = "IMPORT_UNDO" -> <<"DELETING">>
               [] OTHER -> <<>>
        a == CASE jobs[j].meta \in PreviewKinds -> <<"PREVIEWED">>
               [] jobs[j].meta \in ImportKinds -> <<"IMPORTED">>
               [] jobs[j].meta = "IMPORT_UNDO" -> <<"DELETED">>
               [] OTHER -> <<>>
    IN WorkerStatuses(j) =
         CASE jobs[j].pc = "done" -> b \o a
           [] jobs[j].status = "started" -> b
           [] OTHER -> <<>>

C14_Witness ==
  \E j, k \in DOMAIN jobs :
    /\ jobs[j].meta = "IMPORT_UNDO" /\ jobs[j].pc = "done"
    /\ jobs[j].result = "Exception"
    /\ WorkerStatuses(j) = <<"DELETING", "DELETED">>
    /\ jobs[k].meta = "PREVIEW" /\ jobs[k].pc = "done"
    /\ jobs[k].result = "None"
    /\ WorkerStatuses(k) = <<"PREVIEWING", "PREVIEWED">>


\* the folder statuses the client has received about the jobs in S, in order
CallStatuses(S) ==
  LET about == SelectSeq(websocket.received,
                         LAMBDA u : u.event = "folder_status" /\ u.job \in S)
  IN [k \in 1..Len(about) |-> about[k].status]

\* s is what has been emitted so far of the statuses all: PENDING at least,
\* and then the first n of the worker's statuses
EmittedSoFar(s, all, n) ==
  /\ Len(s) = 1 + n
  /\ s = SubSeq(all, 1, 1 + n)

\* the number of worker statuses due for job j: none before its body has
\* started, one while it runs, two when it has ended
StatusesDue(j) ==
  CASE jobs[j].pc = "done" -> 2
    [] jobs[j].status = "started" -> 1
    [] OTHER -> 0

\* C15: the statuses emitted for the folder of a call of enqueue() start
\* with the PENDING of the dispatch, which is there as soon as the call's
\* jobs exist; for a PREVIEW they are PENDING, PREVIEWING, PREVIEWED in this
\* order, for an auto-import PENDING, PREVIEWING, PREVIEWED, IMPORTING,
\* IMPORTED in this order, each emitted up to where the jobs have got.
C15_PendingFirst ==
  \A j \in DOMAIN jobs :
    /\ jobs[j].meta = "PREVIEW" =>
         EmittedSoFar(CallStatuses({j}),
                      <<"PENDING", "PREVIEWING", "PREVIEWED">>, StatusesDue(j))
    /\ jobs[j].meta = "_AUTO_IMPORT" =>
         EmittedSoFar(CallStatuses({j - 1, j}),
                      <<"PENDING", "PREVIEWING", "PREVIEWED", "IMPORTING",
                        "IMPORTED">>,
                      StatusesDue(j - 1) + StatusesDue(j))

C15_Witness ==
  \E j \in DOMAIN jobs :
    /\ jobs[j].meta = "_AUTO_IMPORT" /\ jobs[j].pc = "done"
    /\ CallStatuses({j - 1, j}) =
         <<"PENDING", "PREVIEWING", "PREVIEWED", "IMPORTING", "IMPORTED">>


\* the extra meta the jobs of the call get: the one passed, ExtraJobMeta()
\* if none was
ExtraMetaOfCall ==
  IF last.extra_meta = "None" THEN "ExtraJobMeta()" ELSE last.extra_meta

\* the job carries the folder and the extra meta of the call
TaggedWithFolder(k) ==
  /\ jobs[k].folder_hash = last.hash
  /\ jobs[k].folder_path = Path
  /\ jobs[k].extra_meta = ExtraMetaOfCall

\* C16 (as claimed): every job a call of enqueue() has submitted is tagged
\* with the call's folder_hash, folder_path and extra_meta and with the kind
\* that was passed to the call.
C16_TaggedWithDispatchKind ==
  \A k \in SeqToSet(last.new) :
    TaggedWithFolder(k) /\ jobs[k].meta = last.kind

\* C16 (amended): every job a call of enqueue() has submitted is tagged with
\* the call's folder_hash, folder_path and extra_meta; a call that submits
\* one job tags it with the kind passed, and a call that submits the two
\* jobs of an auto-import tags the preview job _AUTO_PREVIEW and the import
\* job _AUTO_IMPORT.
C16_TaggedWithFolderAndKind ==
  /\ \A k \in SeqToSet(last.new) : TaggedWithFolder(k)
  /\ Len(last.new) = 1 => jobs[last.new[1]].meta = last.kind
  /\ Len(last.new) = 2 =>
       /\ last.kind \in {"IMPORT_AUTO", "IMPORT_CANDIDATE"}
       /\ jobs[last.new[1]].meta = "_AUTO_PREVIEW"
       /\ jobs[last.new[2]].meta = "_AUTO_IMPORT"

C16_Witness ==
  /\ last.kind = "IMPORT_CANDIDATE" /\ last.extra_meta = "ref"
  /\ Len(last.new) = 2
  /\ jobs[last.new[1]].extra_meta = "ref"
  /\ jobs[last.new[2]].extra_meta = "ref"
  /\ jobs[last.new[2]].meta = "_AUTO_IMPORT"


\* C17: a delete_items job is at the head of the import lane when it has
\* been submitted, and a worker takes no job of the import lane that was
\* submitted before a delete_items job that is still waiting in the queue:
\* the delete_items job is taken before every job that was queued (or
\* deferred) in the lane when it was submitted.
C17_DeleteItemsAtFront ==
  [][/\ (/\ Len(jobs') = Len(jobs) + 1
         /\ jobs'[Len(jobs')].fn = "delete_items") =>
          /\ import_queue' # <<>>
          /\ Head(import_queue') = Len(jobs')
          /\ Tail(import_queue') = import_queue
     /\ \A k \in DOMAIN jobs :
          (/\ jobs[k].lane = "import"
           /\ jobs[k].status = "queued"
           /\ jobs'[k].status # "queued") =>
            ~\E d \in DOMAIN jobs : /\ d > k
                                    /\ jobs[d].fn = "delete_items"
                                    /\ jobs[d].status = "queued"]_vars

C17_Witness ==
  \E k, d \in DOMAIN jobs :
    /\ k < d
    /\ jobs[k].lane = "import" /\ jobs[k].status = "queued"
    /\ jobs[d].fn = "delete_items" /\ jobs[d].status = "finished"


\* another job has committed the session job j works on since j loaded it:
\* the stored record of the session holds work that j's live state lacks
CommittedSince(j) ==
  \E r \in store : r.id = jobs[j].live.id /\ ~(r.tasks \subseteq jobs[j].live.tasks)

\* C18: when a job commits a session that another job has loaded as well
\* and committed in the meantime, the commit goes through without a
\* conflict (the job ends with what its session's run ended with) and the
\* store then holds the committing job's state of the session alone: the
\* work the other job had committed to it is no longer in the store.
C18_LastCommitWins ==
  [][\A j \in DOMAIN jobs :
       (jobs[j].pc = "commit" /\ jobs'[j].pc = "done" /\ CommittedSince(j)) =>
         /\ jobs'[j].status = "finished"
         /\ jobs'[j].result = jobs[j].outcome
         /\ \A r \in store' : r.id = jobs[j].live.id => r = jobs[j].live
         /\ \E k \in DOMAIN jobs :
              /\ k # j /\ jobs[k].pc = "done"
              /\ \E r \in store : r.id = jobs[j].live.id /\ k \in r.tasks
              /\ \A r \in store' : k \notin r.tasks]_vars

C18_Witness ==
  \E j, k \in DOMAIN jobs :
    /\ j # k
    /\ jobs[j].pc = "done" /\ jobs[j].result = "None"
    /\ jobs[k].pc = "done" /\ jobs[k].result = "None"
    /\ jobs[j].fn # "run_preview" /\ jobs[k].fn # "run_preview"
    /\ \E r \in store : r.id = PersistedSession.id /\ j \in r.tasks
    /\ \A r \in store : k \notin r.tasks


\* how many entries of the bucket are about the item id
EntriesOf(bucket, item_id) ==
  Cardinality({k \in DOMAIN bucket : bucket[k].item_id = item_id})

\* how many of the first n item ids of the call are the item id
InputsOf(item_id, n) ==
  Cardinality({k \in 1..n : analysis.item_ids[k] = item_id})

\* C19: the report holds one entry for every item id of the list handled so
\* far, in one of the buckets analyzed, errors, skipped: for every item id
\* the entries about it in the three buckets are as many as its occurrences
\* in the list, and when the run returns the report the sizes of the
\* buckets add up to the length of the list.
C19_OneEntryPerItem ==
  LET done == analysis.i - 1
      r == analysis.results
  IN /\ \A x \in ItemIds :
          EntriesOf(r.analyzed, x) + EntriesOf(r.errors, x)
            + EntriesOf(r.skipped, x) = InputsOf(x, done)
     /\ analysis.returned = "results" =>
          Len(r.analyzed) + Len(r.errors) + Len(r.skipped)
            = Len(analysis.item_ids)

C19_Witness ==
  /\ analysis.returned = "results"
  /\ Len(analysis.item_ids) = 2
  /\ Len(analysis.results.analyzed) = 1
  /\ Len(analysis.results.errors) = 1
  /\ analysis.results.errors[1].item_id = 3

\* C20, a pass of the loop: an item id that the library does not hold, or
\* an exception while the item is analysed or stored, adds one entry about
\* the item to errors and nothing to analyzed, and the loop goes on with
\* the next item id.
C20_ErrorStep ==
  (analysis.pc = "loop" /\ analysis' # analysis
   /\ analysis.i <= Len(analysis.item_ids)) =>
    LET x == analysis.item_ids[analysis.i]
    IN /\ analysis'.pc = "loop"
       /\ analysis'.i = analysis.i + 1
       /\ (x \notin LibraryItems \/ analysis'.caught # "None") =>
            /\ Len(analysis'.results.errors) = Len(analysis.results.errors) + 1
            /\ analysis'.results.errors[Len(analysis'.results.errors)].item_id = x
            /\ SubSeq(analysis'.results.errors, 1, Len(analysis.results.errors))
                 = analysis.results.errors
            /\ analysis'.results.analyzed = analysis.results.analyzed

\* C20, the run: it ends only when every item id of the list has been
\* handled, and then returns the report.
C20_EndsAfterLastItem ==
  analysis.pc = "done" =>
    /\ analysis.i = Len(analysis.item_ids) + 1
    /\ analysis.returned = "results"

\* C20: in a batch analysis an item id missing from the library, or a
\* failure while analysing or persisting an item, puts the item in errors
\* and never ends the batch: every later item id is still handled.
C20_ErrorsNeverAbort ==
  /\ []C20_EndsAfterLastItem
  /\ [][C20_ErrorStep]_vars

C20_Witness ==
  /\ analysis.returned = "results"
  /\ Len(analysis.item_ids) = 2
  /\ analysis.item_ids[1] = 1
  /\ Len(analysis.results.errors) = 1
  /\ analysis.results.errors[1].item_id = 1
  /\ analysis.results.errors[1].error = "store"
  /\ Len(analysis.results.analyzed) = 1
  /\ analysis.results.analyzed[1].item_id = analysis.item_ids[2]

\* how many entries of errors are about the item id and name the error
ErrorsOf(bucket, item_id, raised) ==
  Cardinality({k \in DOMAIN bucket :
                 bucket[k].item_id = item_id /\ bucket[k].error \in raised})

\* C21, every call is accounted for: the store calls of an item are as many
\* as its entries in analyzed plus the calls that raised, the write calls
\* likewise, so that an item id the library does not hold causes no call.
C21_CallsAccountedFor ==
  LET r == analysis.results
  IN \A x \in DOMAIN analysis.lib :
       /\ analysis.lib[x].store_calls
            = EntriesOf(r.analyzed, x) + ErrorsOf(r.errors, x, {"store", "write"})
       /\ analysis.lib[x].write_calls
            = EntriesOf(r.analyzed, x) + ErrorsOf(r.errors, x, {"write"})

\* C21 as stated: every item with an entry in analyzed has had one store
\* call and one write call in the batch, and an item id that the library
\* does not hold causes no store or write call.
C21_PersistedOncePerItem ==
  /\ C21_CallsAccountedFor
  /\ \A x \in DOMAIN analysis.lib :
       EntriesOf(analysis.results.analyzed, x) > 0 =>
         /\ analysis.lib[x].store_calls = 1
         /\ analysis.lib[x].write_calls = 1

\* C21, amended: every item that is listed once among the item ids handled
\* so far and has an entry in analyzed has had one store call and one write
\* call, with the attributes of the entry set on it, and an item id that
\* the library does not hold causes no store or write call.
C21_PersistedOncePerListedItem ==
  /\ C21_CallsAccountedFor
  /\ \A x \in DOMAIN analysis.lib :
       (EntriesOf(analysis.results.analyzed, x) > 0
        /\ InputsOf(x, analysis.i - 1) = 1) =>
         /\ analysis.lib[x].store_calls = 1
         /\ analysis.lib[x].write_calls = 1
         /\ \A k \in DOMAIN analysis.results.analyzed :
              LET e == analysis.results.analyzed[k]
              IN e.item_id = x =>
                   /\ analysis.lib[x].bpm = e.bpm
                   /\ analysis.lib[x].initial_key = e.initial_key

C21_Witness ==
  /\ analysis.returned = "results"
  /\ analysis.item_ids = <<1, 3>>
  /\ Len(analysis.results.analyzed) = 1
  /\ analysis.results.analyzed[1].bpm = 128
  /\ analysis.lib[1].store_calls = 1
  /\ analysis.lib[1].write_calls = 1
  /\ Len(analysis.results.errors) = 1

\* keyfinder-cli is missing, exits non-zero, times out or cannot be run
KeyToolFails(f) == ~f.which \/ f.run # "completed" \/ f.returncode # 0

\* C22: when key detection is asked for and the key-detection tool is
\* missing, exits non-zero, times out or raises for an item, the item's key
\* stays unset, every occurrence of the item handled so far is reported
\* under analyzed with no key (under errors only if persisting it raised),
\* and the run ends only after the last item of the batch, every item
\* reported.
C22_KeyToolFailureLeavesKeyUnset ==
  LET r == analysis.results
      done == analysis.i - 1
  IN /\ \A x \in DOMAIN analysis.lib :
          (analysis.analyze_key /\ KeyToolFails(analysis.files[x])) =>
            /\ analysis.lib[x].initial_key = "None"
            /\ \A k \in DOMAIN r.analyzed :
                 r.analyzed[k].item_id = x => r.analyzed[k].initial_key = "None"
            /\ EntriesOf(r.analyzed, x) + ErrorsOf(r.errors, x, {"store"})
                 = InputsOf(x, done)
            /\ EntriesOf(r.errors, x) = ErrorsOf(r.errors, x, {"store"})
     /\ analysis.pc = "done" =>
          /\ analysis.returned = "results"
          /\ done = Len(analysis.item_ids)
          /\ Len(r.analyzed) + Len(r.errors) = Len(analysis.item_ids)

C22_Witness ==
  /\ analysis.returned = "results"
  /\ analysis.item_ids = <<1, 2>>
  /\ analysis.analyze_key
  /\ analysis.files[1].which /\ analysis.files[1].run = "TimeoutExpired"
  /\ ~KeyToolFails(analysis.files[2])
  /\ Len(analysis.results.analyzed) = 2
  /\ analysis.results.analyzed[1].initial_key = "None"
  /\ analysis.results.analyzed[2].initial_key = "Am"
  /\ analysis.lib[2].initial_key = "Am"

\* the tempo of the mean interval between the beats, 60.0 / avg_interval
MeanTempo(beats) ==
  Fraction(60 * TicksPerSecond * Len(Intervals(beats)), Sum(Intervals(beats)))

\* the correction of a tempo estimate as C23 states it
Corrected(bpm) ==
  IF Leq(Whole(40), bpm) /\ Leq(bpm, Whole(250)) THEN bpm
  ELSE IF Leq(Whole(20), bpm) /\ ~Leq(Whole(40), bpm)
    THEN Fraction(bpm.num * 2, bpm.den)
  ELSE IF ~Leq(bpm, Whole(250)) /\ Leq(bpm, Whole(500))
    THEN Fraction(bpm.num, bpm.den * 2)
  ELSE NoTempo

\* the item of the tempo estimation has been handled, and stored
TempoEstimated ==
  /\ analysis.i = 2 /\ analysis.item_ids = <<1>> /\ analysis.analyze_bpm
  /\ analysis.caught = "None"

\* C23: when aubio detects at least two beats (a positive time apart), the
\* tempo of the item is the corrected tempo of the mean interval between
\* the beats: unchanged in [40,250], doubled in [20,40), halved in
\* (250,500], unset otherwise.
C23_TempoCorrectedOrRejected ==
  LET f == analysis.files[1]
  IN (TempoEstimated /\ f.aubio = "ok" /\ Len(f.beats) >= 2
      /\ Sum(Intervals(f.beats)) > 0) =>
       /\ Len(analysis.results.analyzed) = 1
       /\ analysis.results.analyzed[1].bpm
            = ItemBpm(Corrected(MeanTempo(f.beats)))
       /\ analysis.lib[1].bpm = ItemBpm(Corrected(MeanTempo(f.beats)))

\* C24: when aubio detects fewer than two beats, the tempo of the item is
\* the detector's own estimate if that lies in [40,250] and unset
\* otherwise; and an item whose tempo is unset, for this or any other
\* reason, is reported under analyzed with no bpm, and not under errors.
C24_FallbackEstimateOrUnset ==
  LET f == analysis.files[1]
      r == analysis.results
  IN TempoEstimated =>
       /\ (f.aubio = "ok" /\ Len(f.beats) < 2) =>
            /\ Len(r.analyzed) = 1
            /\ r.analyzed[1].bpm
                 = IF Leq(Whole(40), f.get_bpm) /\ Leq(f.get_bpm, Whole(250))
                     THEN round(f.get_bpm) ELSE NoBpm
            /\ analysis.lib[1].bpm = r.analyzed[1].bpm
       /\ _analyze_bpm(f.aubio, f.beats, f.get_bpm) = NoTempo =>
            /\ Len(r.analyzed) = 1
            /\ r.analyzed[1].item_id = 1
            /\ r.analyzed[1].bpm = NoBpm
            /\ analysis.lib[1].bpm = NoBpm
            /\ analysis.lib[1].store_calls = 1
            /\ r.errors = <<>>

C24_Witness ==
  /\ analysis.returned = "results"
  /\ analysis.files[1].aubio = "ok"
  /\ Len(analysis.files[1].beats) = 1
  /\ analysis.files[1].get_bpm = Fraction(2501, 10)
  /\ Len(analysis.results.analyzed) = 1
  /\ analysis.results.analyzed[1].bpm = NoBpm
  /\ analysis.results.errors = <<>>

\* the string ends with the suffix
EndsWith(s, suffix) ==
  /\ Len(s) >= Len(suffix)
  /\ SubSeq(s, Len(s) - Len(suffix) + 1, Len(s)) = suffix

\* the string without its last n characters
DropLast(s, n) == SubSeq(s, 1, Len(s) - n)

\* the key of a token as C25 states it: the token if it is in the
\* vocabulary; otherwise the token with a trailing " minor" replaced by "m"
\* and a trailing " major" removed, if that is in the vocabulary; otherwise
\* the token
TrailingNormalized(token) ==
  LET minor == IF EndsWith(token, Minor)
                 THEN DropLast(token, Len(Minor)) \o <<"m">> ELSE token
      major == IF EndsWith(minor, Major)
                 THEN DropLast(minor, Len(Major)) ELSE minor
  IN IF Str(token) \in valid_keys THEN Str(token)
     ELSE IF Str(major) \in valid_keys THEN Str(major)
     ELSE Str(token)

\* the item of the key estimation has been handled, and stored
KeyEstimated ==
  /\ analysis.i = 2 /\ analysis.item_ids = <<1>> /\ analysis.analyze_key
  /\ analysis.caught = "None"

\* C25: the key of an item is parsed from the last tab-delimited field of
\* the tool's output (blanks around it dropped): a token of the
\* vocabulary is the key, otherwise the token with a trailing " minor"
\* replaced by "m" and a trailing " major" removed is the key if it is in
\* the vocabulary, and otherwise the key is the raw token.
C25_KeyParsedAndNormalized ==
  LET f == analysis.files[1]
  IN (KeyEstimated /\ f.which /\ f.run = "completed" /\ f.returncode = 0) =>
       /\ Len(analysis.results.analyzed) = 1
       /\ analysis.results.analyzed[1].initial_key
            = TrailingNormalized(KeyToken(f.stdout))
       /\ analysis.lib[1].initial_key = TrailingNormalized(KeyToken(f.stdout))

\* C26, the handle: a close path is tried only at the end of a run that
\* opened the library itself with closing not disabled, and then every path
\* the handle exposes is tried, whichever of them raise; a handle of the
\* caller, and a handle with closing disabled, is never touched.
C26_ClosedOnlyIfManaged ==
  LET h == analysis.handle
  IN /\ h.called # <<>> =>
          analysis.managed_library /\ analysis.close_library
          /\ analysis.pc = "done"
     /\ (~analysis.managed_library \/ ~analysis.close_library) =>
          h = Handle(h.exposes)
     /\ (analysis.pc = "done" /\ analysis.managed_library
         /\ analysis.close_library) =>
          /\ h.called = Exposed(analysis)
          /\ h.collected
     /\ analysis.pc = "done" => analysis.returned = "results"

\* C26, the last step of a run: the report is the one the loop has built,
\* and it is returned whatever the cleanup meets.
C26_CleanupKeepsReport ==
  (analysis.pc = "loop" /\ analysis'.pc = "done") =>
    /\ analysis'.results = analysis.results
    /\ analysis'.returned = "results"
    /\ analysis'.lib = analysis.lib

BadItemIds(data) ==
  \/ ~data.present
  \/ data.item_ids.type # "list"
  \/ data.item_ids.items = <<>>

\* C27, the response: a request without a body, without item_ids, with an
\* empty list or with item_ids that is no list is answered with 400 and
\* submits no job; any other request is answered with 202, the id of the
\* job it submitted and the status queued, and that job runs
\* run_analyze_attributes on the item_ids of the body with its flags, each
\* flag true if the body does not give it.
C27_Response ==
  last.kind = "POST /analyze" =>
    IF BadItemIds(last.data)
      THEN /\ last.response.code = 400
           /\ last.new = <<>>
      ELSE /\ last.response = [code |-> 202, job_id |-> last.job,
                               status |-> "queued"]
           /\ Len(last.new) = 1
           /\ last.job = last.new[1]
           /\ last.job \in DOMAIN jobs
           /\ jobs[last.job].fn = "run_analyze_attributes"
           /\ jobs[last.job].args
                = <<last.data.item_ids.items,
                    IF last.data.analyze_bpm = Absent THEN TRUE
                      ELSE last.data.analyze_bpm.truthy,
                    IF last.data.analyze_key = Absent THEN TRUE
                      ELSE last.data.analyze_key.truthy>>

\* C27, the request: it adds as many jobs as the response names (none or
\* one), at the back of the import lane, and leaves the jobs that were
\* there alone.
C27_RequestStep ==
  (last = NoCall /\ last' # NoCall) =>
    /\ Len(jobs') = Len(jobs) + Len(last'.new)
    /\ SubSeq(jobs', 1, Len(jobs)) = jobs
    /\ preview_queue' = preview_queue
    /\ import_queue' = import_queue \o last'.new

\* C27: POST /analyze with no body, no item_ids, an empty list or item_ids
\* that is no list is rejected with 400 and enqueues nothing; with a
\* non-empty list it enqueues exactly one analysis job with the given flags
\* (true by default) and answers 202 with the job id and status queued.
C27_AnalyzeEndpoint ==
  /\ []C27_Response
  /\ [][C27_RequestStep]_vars

C27_Witness ==
  /\ last.kind = "POST /analyze"
  /\ last.data.item_ids.items = <<1, 2>>
  /\ last.data.analyze_bpm = Absent
  /\ last.data.analyze_key = JsonValue("bool", <<>>, FALSE)
  /\ last.response.code = 202
  /\ Len(jobs) = 2
  /\ jobs[1].fn = "delete_items"
  /\ jobs[2].args = <<(<<1, 2>>), TRUE, FALSE>>
  /\ import_queue = <<1, 2>>

\* the plugins the service is to report on
MetadataPlugins ==
  {"discogs", "spotify", "musicbrainz", "autobpm", "keyfinder", "beatport",
   "lyrics", "replaygain"}

\* C28: get_metadata_plugins_config returns an entry with enabled and
\* settings for each of discogs, spotify, musicbrainz, autobpm, keyfinder,
\* beatport, lyrics and replaygain, in the config file or not; enabled is
\* true exactly when the plugin is in the plugins list, and the settings of
\* a plugin without a section are empty.
C28_EveryMetadataPluginReported ==
  config.call.op = "get" =>
    LET plugins_config == config.call.plugins_config
    IN /\ MetadataPlugins \subseteq DOMAIN plugins_config
       /\ \A plugin \in MetadataPlugins \cap DOMAIN plugins_config :
            /\ plugins_config[plugin].enabled
                 = (plugin \in SeqToSet(config.data.plugins))
            /\ plugin \notin DOMAIN config.data.sections =>
                 plugins_config[plugin].settings = NoSettings

\* a setting whose key contains "token", "secret" or "key"
SecretSetting(key) ==
  \/ Contains(key, <<"t", "o", "k", "e", "n">>)
  \/ Contains(key, <<"s", "e", "c", "r", "e", "t">>)
  \/ Contains(key, <<"k", "e", "y">>)

\* two config files that differ at most in the values of secret settings
SameButSecrets(d1, d2) ==
  /\ d1.plugins = d2.plugins
  /\ DOMAIN d1.sections = DOMAIN d2.sections
  /\ \A name \in DOMAIN d1.sections :
       /\ DOMAIN d1.sections[name] = DOMAIN d2.sections[name]
       /\ \A key \in DOMAIN d1.sections[name] :
            ~SecretSetting(key) => d1.sections[name][key] = d2.sections[name][key]

NoDuplicates(list) ==
  \A i, j \in 1..Len(list) : list[i] = list[j] => i = j

\* the last call was an update of a supported plugin, which was written
Updated ==
  /\ config.call.op = "update"
  /\ config.call.exc = "None"

\* the written plugins list contains the plugin exactly when enabled was true
EnabledAsAsked ==
  Updated =>
    (config.call.plugin_name \in SeqToSet(config.data.plugins)
       <=> config.call.enabled)

\* an update leaves a plugins list without duplicates without duplicates
NoDuplicatesKept ==
  [][NoDuplicates(config.data.plugins) => NoDuplicates(config'.data.plugins)]_vars

\* C30: after update_metadata_plugin_config(P, settings, enabled) on a
\* supported plugin P the written plugins list contains P exactly when
\* enabled is true, and a plugins list without duplicates has none after any
\* sequence of updates, so P is in it at most once
C30_PluginListedIffEnabled ==
  /\ []EnabledAsAsked
  /\ NoDuplicatesKept

\* C31: every successful update_metadata_plugin_config copies the config
\* file to its backup exactly once, before the file is overwritten: after
\* the update the backup holds what the file held before the update
C31_BackupHoldsPreviousContent ==
  [][Updated' => /\ config'.copies = 1
                 /\ config'.backed_up
                 /\ config'.backup = config.data]_vars

\* an update has changed the file, the backup holding what it held before
C31_Witness ==
  /\ Updated
  /\ config.copies = 1
  /\ config.backed_up
  /\ config.backup # config.data
  /\ config.call.plugin_name = "spotify"
  /\ config.call.enabled

\* C32: a call of enqueue() that raises a usage error (a kwarg outside the
\* schema of the kind, no search for PREVIEW_ADD_CANDIDATES, or a kind the
\* match statement does not handle) leaves the jobs and both lanes as they
\* were: no job is submitted
C32_UsageErrorLeavesLanes ==
  [][(last = NoCall /\ last'.exc = "InvalidUsageException") =>
       /\ jobs' = jobs
       /\ preview_queue' = preview_queue
       /\ import_queue' = import_queue]_vars

\* with jobs waiting in both lanes, a PREVIEW_ADD_CANDIDATES call without
\* a search has raised
C32_Witness ==
  /\ last.kind = "PREVIEW_ADD_CANDIDATES"
  /\ ~last.unexpected
  /\ last.exc = "InvalidUsageException"
  /\ last.new = <<>>
  /\ preview_queue # <<>>
  /\ import_queue # <<>>

\* an IMPORT_CANDIDATE call with kwargs of its schema is returning
CandidateCall == last.kind = "IMPORT_CANDIDATE" /\ ~last.unexpected

\* the call submitted the two jobs of an auto-import
FellBackToAuto ==
  /\ last.exc = "None"
  /\ Len(last.new) = 2
  /\ jobs[last.new[1]].fn = "run_preview"
  /\ jobs[last.new[2]].fn = "run_import_auto"

\* C33: an IMPORT_CANDIDATE call falls back to the auto-import exactly when
\* the probe finds no persisted session of (hash, path): with a session it
\* submits the one run_import_candidate job into the import lane, and a
\* probe that fails for another reason, such as an error of the storage,
\* does not make it fall back.
C33_FallbackOnlyWithoutSession ==
  CandidateCall =>
    /\ FellBackToAuto <=> (last.db = "ok" /\ ~last.found)
    /\ (last.db = "ok" /\ last.found) =>
         /\ last.exc = "None"
         /\ Len(last.new) = 1
         /\ jobs[last.new[1]].fn = "run_import_candidate"
         /\ jobs[last.new[1]].lane = "import"
         /\ last.new[1] \in SeqToSet(import_queue)

\* C34: the tag of a job is in place before a worker can run the job: in
\* every interleaving of the call of enqueue() and the workers, the job
\* status update the completion hook emits for a job carries the
\* folder_hash, the folder_path and the kind the job was submitted with
C34_HookUpdateCarriesTag ==
  \A k \in DOMAIN websocket.received :
    LET update == websocket.received[k]
    IN update.event = "job_status" =>
         /\ update.hash = jobs[update.job].hash
         /\ update.path = jobs[update.job].path
         /\ update.kind \in EnqueueKind

\* C35: a preview computes its revision over the folder_hash that the
\* record it commits carries, so that after previews that ran one after
\* another, also on a folder whose content had changed, no two records of
\* the store have the same folder_hash and folder_revision
C35_HashAndRevisionUnique ==
  /\ \A r \in store :
       (r.id \in DOMAIN jobs /\ jobs[r.id].fn = "run_preview") =>
         r.folder_hash = jobs[r.id].hash
  /\ \A r1, r2 \in store :
       (r1.folder_hash = r2.folder_hash
        /\ r1.folder_revision = r2.folder_revision) => r1 = r2

\* the settings of the plugin as get_metadata_plugins_config() returns them
Returned(config_data, plugin) ==
  get_metadata_plugins_config(config_data)[plugin].settings

\* the settings of the section that are redacted when returned
Secrets(config_data, plugin) ==
  {key \in DOMAIN Section(config_data, plugin) : Sensitive(key)}

\* a written update leaves every stored setting that it was given as the
\* placeholder as it was
PlaceholderKeepsStored ==
  [][Updated' =>
       LET P == config'.call.plugin_name
           settings == config'.call.settings
           old == Section(config.data, P)
       IN \A key \in DOMAIN settings \cap DOMAIN old :
            settings[key] = "********" =>
              Section(config'.data, P)[key] = old[key]]_vars

\* an update with the settings that were returned for the plugin leaves the
\* secrets of the plugin as they were
ReturnedKeepsSecrets ==
  \A P \in SeqToSet(SUPPORTED_METADATA_PLUGINS), enabled \in BOOLEAN :
    LET r == update_metadata_plugin_config(config.data, P,
                                           Returned(config.data, P), enabled)
    IN /\ r.exc = "None"
       /\ \A key \in Secrets(config.data, P) :
            Section(r.data, P)[key] = Section(config.data, P)[key]

\* C36: update_metadata_plugin_config never overwrites a stored setting with
\* the redaction placeholder: a setting passed as "********" keeps its stored
\* value, so an update of a plugin with the settings that
\* get_metadata_plugins_config returned for it leaves every stored secret of
\* the plugin unchanged
C36_RedactedSettingsKeepStored ==
  /\ PlaceholderKeepsStored
  /\ []ReturnedKeepsSecrets

\* spotify was updated with its settings as they are returned, the api_key
\* redacted, and its stored api_key is still the one of the file before
C36_Witness ==
  /\ Updated
  /\ config.call.plugin_name = "spotify"
  /\ config.call.settings = Returned(config.backup, "spotify")
  /\ ApiKey \in Secrets(config.backup, "spotify")
  /\ config.call.settings[ApiKey] = "********"
  /\ Section(config.data, "spotify")[ApiKey] = "a"
  /\ Section(config.backup, "spotify")[ApiKey] = "a"

====
